---- MODULE Spec2Model ----
(***************************************************************************)
(* Model of the auditable item graph service                               *)
(* (packages/auditable-item-graph-service/src/auditableItemGraphService.ts)*)
(*                                                                         *)
(* Strings that are searched, joined or lower-cased (vertex ids, element   *)
(* ids, the alias index) are sequences of one-character strings.  Other    *)
(* strings (identities, schemas, metadata, relationships) are TLA+ strings;*)
(* UNDEF stands for the JavaScript value undefined.  Epoch stamps are      *)
(* positive integers and NoStamp (0) stands for an undefined stamp.        *)
(***************************************************************************)
EXTENDS Integers, Sequences, FiniteSets, TLC

\* ------------------------------------------------------------------ bounds
MaxChangesets == 4
MaxClock == 2
MaxVertices == 1
MaxQueryVertices == 2
MaxOutOfBand == 1
MaxOrphans == 1

\* ------------------------------------------------------- program constants
NAMESPACE == "aig"
VaultKeyId == "auditable-item-graph"
AssertionMethodId == "auditable-item-graph"

UNDEF == "undefined"
NoStamp == 0
NoStorageId == 0

\* --------------------------------------------------------------- utilities
RECURSIVE FirstIndex(_, _, _)
\* Array.prototype.find: the index of the first element with the given id, 0 if none
FirstIndex(list, id, i) ==
    IF i > Len(list) THEN 0
    ELSE IF list[i].id = id THEN i
    ELSE FirstIndex(list, id, i + 1)

\* Is.arrayValue: an array with at least one element
IsArrayValue(list) == Len(list) > 0

\* Guards.stringValue / Is.stringValue on a character sequence
IsStringValue(s) == Len(s) > 0

\* String.prototype.toLowerCase on one character
LowerChar(c) ==
    CASE c = "A" -> "a"
      [] c = "B" -> "b"
      [] c = "C" -> "c"
      [] c = "D" -> "d"
      [] c = "E" -> "e"
      [] c = "F" -> "f"
      [] OTHER -> c

ToLowerCase(s) == [i \in DOMAIN s |-> LowerChar(s[i])]

RECURSIVE Join(_, _)
\* Array.prototype.join
Join(parts, sep) ==
    IF Len(parts) = 0 THEN <<>>
    ELSE IF Len(parts) = 1 THEN parts[1]
    ELSE parts[1] \o sep \o Join(Tail(parts), sep)

\* JsonHelper.canonicalize on a metadata value: object keys are sorted, so two
\* spellings of the same object give the same text; undefined gives the empty text.
Canonicalize(metadata) ==
    CASE metadata = UNDEF -> ""
      [] metadata = "{b:2,a:1}" -> "{a:1,b:2}"
      [] OTHER -> metadata

\* ------------------------------------------------------ model <-> entity
\* vertexModelToEntity, the alias part: the element's updated stamp is not copied
AliasModelToEntity(a) ==
    [id |-> a.id, created |-> a.created, deleted |-> a.deleted,
     metadataSchema |-> a.metadataSchema, metadata |-> a.metadata]

ResourceModelToEntity(r) ==
    [id |-> r.id, created |-> r.created, deleted |-> r.deleted,
     metadataSchema |-> r.metadataSchema, metadata |-> r.metadata]

EdgeModelToEntity(e) ==
    [id |-> e.id, created |-> e.created, deleted |-> e.deleted,
     relationship |-> e.relationship,
     metadataSchema |-> e.metadataSchema, metadata |-> e.metadata]

\* the alias index over the aliases without a deleted stamp
AliasIndexOf_LiveOnly(aliases) ==
    LET live == SelectSeq(aliases, LAMBDA a : a.deleted = NoStamp)
    IN ToLowerCase(Join([i \in DOMAIN live |-> live[i].id], <<"|", "|">>))

AliasIndexOf(aliases) ==
    ToLowerCase(Join([i \in DOMAIN aliases |-> aliases[i].id], <<"|", "|">>))

vertexModelToEntity(m) ==
    [id |-> m.id, created |-> m.created, updated |-> m.updated,
     nodeIdentity |-> m.nodeIdentity,
     metadataSchema |-> m.metadataSchema, metadata |-> m.metadata,
     aliasIndex |-> IF IsArrayValue(m.aliases) THEN AliasIndexOf(m.aliases) ELSE <<>>,
     aliases |-> [i \in DOMAIN m.aliases |-> AliasModelToEntity(m.aliases[i])],
     resources |-> [i \in DOMAIN m.resources |-> ResourceModelToEntity(m.resources[i])],
     edges |-> [i \in DOMAIN m.edges |-> EdgeModelToEntity(m.edges[i])],
     changesets |-> m.changesets]

\* vertexEntityToModel: the model elements start without an updated stamp
AliasEntityToModel(a) ==
    [id |-> a.id, created |-> a.created, deleted |-> a.deleted,
     metadataSchema |-> a.metadataSchema, metadata |-> a.metadata,
     updated |-> NoStamp]

ResourceEntityToModel(r) ==
    [id |-> r.id, created |-> r.created, deleted |-> r.deleted,
     metadataSchema |-> r.metadataSchema, metadata |-> r.metadata,
     updated |-> NoStamp]

EdgeEntityToModel(e) ==
    [id |-> e.id, created |-> e.created, deleted |-> e.deleted,
     relationship |-> e.relationship,
     metadataSchema |-> e.metadataSchema, metadata |-> e.metadata,
     updated |-> NoStamp]

vertexEntityToModel(e) ==
    [id |-> e.id, created |-> e.created, updated |-> e.updated,
     nodeIdentity |-> e.nodeIdentity,
     metadataSchema |-> e.metadataSchema, metadata |-> e.metadata,
     aliases |-> [i \in DOMAIN e.aliases |-> AliasEntityToModel(e.aliases[i])],
     resources |-> [i \in DOMAIN e.resources |-> ResourceEntityToModel(e.resources[i])],
     edges |-> [i \in DOMAIN e.edges |-> EdgeEntityToModel(e.edges[i])],
     changesets |-> e.changesets]

\* ------------------------------------------------- sub-element reconcilers
\* An update list is [present |-> BOOLEAN, items |-> sequence]; present = FALSE
\* is the argument left undefined by the caller.
InList(input, id) ==
    input.present /\ \E j \in DOMAIN input.items : input.items[j].id = id

\* updateAlias clearing the deleted stamp of the element it finds
updateAlias_Reviving(now, aliases, alias) ==
    LET i == FirstIndex(aliases, alias.id, 1) IN
    IF i = 0
    THEN Append(aliases,
                [id |-> alias.id, created |-> now, deleted |-> NoStamp,
                 metadataSchema |-> alias.metadataSchema,
                 metadata |-> alias.metadata, updated |-> NoStamp])
    ELSE [aliases EXCEPT ![i] = [@ EXCEPT !.deleted = NoStamp,
                                          !.metadataSchema = alias.metadataSchema,
                                          !.metadata = alias.metadata]]

\* updateAlias putting a new element in front of the stored ones
updateAlias_Prepending(now, aliases, alias) ==
    LET i == FirstIndex(aliases, alias.id, 1) IN
    IF i = 0 \/ aliases[i].deleted # NoStamp
    THEN <<[id |-> alias.id, created |-> now, deleted |-> NoStamp,
            metadataSchema |-> alias.metadataSchema,
            metadata |-> alias.metadata, updated |-> NoStamp]>> \o aliases
    ELSE IF \/ aliases[i].metadataSchema # alias.metadataSchema
            \/ Canonicalize(aliases[i].metadata) # Canonicalize(alias.metadata)
    THEN [aliases EXCEPT ![i] = [@ EXCEPT !.updated = now,
                                          !.metadataSchema = alias.metadataSchema,
                                          !.metadata = alias.metadata]]
    ELSE aliases

\* updateAlias
updateAlias(now, aliases, alias) ==
    LET i == FirstIndex(aliases, alias.id, 1) IN
    IF i = 0 \/ aliases[i].deleted # NoStamp
    THEN Append(aliases,
                [id |-> alias.id, created |-> now, deleted |-> NoStamp,
                 metadataSchema |-> alias.metadataSchema,
                 metadata |-> alias.metadata, updated |-> NoStamp])
    ELSE IF \/ aliases[i].metadataSchema # alias.metadataSchema
            \/ Canonicalize(aliases[i].metadata) # Canonicalize(alias.metadata)
    THEN [aliases EXCEPT ![i] = [@ EXCEPT !.updated = now,
                                          !.metadataSchema = alias.metadataSchema,
                                          !.metadata = alias.metadata]]
    ELSE aliases

RECURSIVE updateAliasEach(_, _, _)
updateAliasEach(now, aliases, items) ==
    IF Len(items) = 0 THEN aliases
    ELSE updateAliasEach(now, updateAlias(now, aliases, Head(items)), Tail(items))

\* updateAliasList without the pass that stamps the elements the list leaves out
updateAliasList_KeepingMissing(now, aliases, input) ==
    IF input.present /\ IsArrayValue(input.items)
    THEN updateAliasEach(now, aliases, input.items)
    ELSE aliases

\* updateAliasList
updateAliasList(now, aliases, input) ==
    LET marked == [i \in DOMAIN aliases |->
                     IF aliases[i].deleted = NoStamp /\ ~InList(input, aliases[i].id)
                     THEN [aliases[i] EXCEPT !.deleted = now]
                     ELSE aliases[i]]
    IN IF input.present /\ IsArrayValue(input.items)
       THEN updateAliasEach(now, marked, input.items)
       ELSE marked

\* updateResource appending whether or not it finds the id
updateResource_AlwaysAppending(now, resources, resource) ==
    Append(resources,
           [id |-> resource.id, created |-> now, deleted |-> NoStamp,
            metadataSchema |-> resource.metadataSchema,
            metadata |-> resource.metadata, updated |-> NoStamp])

\* updateResource
updateResource(now, resources, resource) ==
    LET i == FirstIndex(resources, resource.id, 1) IN
    IF i = 0 \/ resources[i].deleted # NoStamp
    THEN Append(resources,
                [id |-> resource.id, created |-> now, deleted |-> NoStamp,
                 metadataSchema |-> resource.metadataSchema,
                 metadata |-> resource.metadata, updated |-> NoStamp])
    ELSE IF \/ resources[i].metadataSchema # resource.metadataSchema
            \/ Canonicalize(resources[i].metadata) # Canonicalize(resource.metadata)
    THEN [resources EXCEPT ![i] = [@ EXCEPT !.updated = now,
                                            !.metadataSchema = resource.metadataSchema,
                                            !.metadata = resource.metadata]]
    ELSE resources

RECURSIVE updateResourceEach(_, _, _)
updateResourceEach(now, resources, items) ==
    IF Len(items) = 0 THEN resources
    ELSE updateResourceEach(now, updateResource(now, resources, Head(items)), Tail(items))

\* updateResourceList
updateResourceList(now, resources, input) ==
    LET marked == [i \in DOMAIN resources |->
                     IF resources[i].deleted = NoStamp /\ ~InList(input, resources[i].id)
                     THEN [resources[i] EXCEPT !.deleted = now]
                     ELSE resources[i]]
    IN IF input.present /\ IsArrayValue(input.items)
       THEN updateResourceEach(now, marked, input.items)
       ELSE marked

\* updateEdge
updateEdge(now, edges, edge) ==
    LET i == FirstIndex(edges, edge.id, 1) IN
    IF i = 0 \/ edges[i].deleted # NoStamp
    THEN Append(edges,
                [id |-> edge.id, created |-> now, deleted |-> NoStamp,
                 relationship |-> edge.relationship,
                 metadataSchema |-> edge.metadataSchema,
                 metadata |-> edge.metadata, updated |-> NoStamp])
    ELSE IF \/ edges[i].relationship # edge.relationship
            \/ edges[i].metadataSchema # edge.metadataSchema
            \/ Canonicalize(edges[i].metadata) # Canonicalize(edge.metadata)
    THEN [edges EXCEPT ![i] = [@ EXCEPT !.updated = now,
                                        !.relationship = edge.relationship,
                                        !.metadataSchema = edge.metadataSchema,
                                        !.metadata = edge.metadata]]
    ELSE edges

RECURSIVE updateEdgeEach(_, _, _)
updateEdgeEach(now, edges, items) ==
    IF Len(items) = 0 THEN edges
    ELSE updateEdgeEach(now, updateEdge(now, edges, Head(items)), Tail(items))

\* updateEdgeList
updateEdgeList(now, edges, input) ==
    LET marked == [i \in DOMAIN edges |->
                     IF edges[i].deleted = NoStamp /\ ~InList(input, edges[i].id)
                     THEN [edges[i] EXCEPT !.deleted = now]
                     ELSE edges[i]]
    IN IF input.present /\ IsArrayValue(input.items)
       THEN updateEdgeEach(now, marked, input.items)
       ELSE marked

\* The Guards.stringValue calls of updateAlias / updateResource / updateEdge
GuardElements(input) ==
    input.present => \A j \in DOMAIN input.items : IsStringValue(input.items[j].id)

\* the guards of updateEdge without the one on the relationship
GuardEdges_IdOnly(input) ==
    input.present => \A j \in DOMAIN input.items : IsStringValue(input.items[j].id)

GuardEdges(input) ==
    input.present => \A j \in DOMAIN input.items :
        IsStringValue(input.items[j].id) /\ input.items[j].relationship # ""

\* ------------------------------------------------------------- diff engine
\* JsonHelper.diff(originalModel, updatedModel) as addChangeset uses it: an RFC 6902
\* patch list.  For an object the removed keys come first, then the added keys,
\* then the differences of the keys both sides have; a key whose value is
\* undefined counts as missing.  Array elements are compared by index and the
\* elements beyond the original length are appended with the path "/<arr>/-".
\* A patch value carries its JSON type, so values of different types differ.
PatchOp(op, path, value) == [op |-> op, path |-> path, value |-> value]
NoValue == [none |-> TRUE]
NumberValue(n) == [number |-> n]
TextValue(t) == [text |-> t]
ObjectValue(o) == [object |-> o]
ArrayValue(a) == [array |-> a]

RECURSIVE Flatten(_)
Flatten(seqs) ==
    IF Len(seqs) = 0 THEN <<>> ELSE Head(seqs) \o Flatten(Tail(seqs))

\* the patch for one string-valued key, by the phase of the object diff
RemovedKey(path, before, after) ==
    IF before # UNDEF /\ after = UNDEF THEN <<PatchOp("remove", path, NoValue)>> ELSE <<>>

AddedKey(path, before, after) ==
    IF before = UNDEF /\ after # UNDEF
    THEN <<PatchOp("add", path, TextValue(after))>> ELSE <<>>

ReplacedKey(path, before, after) ==
    IF before # UNDEF /\ after # UNDEF /\ Canonicalize(before) # Canonicalize(after)
    THEN <<PatchOp("replace", path, TextValue(after))>> ELSE <<>>

AddedStamp(path, before, after) ==
    IF before = NoStamp /\ after # NoStamp
    THEN <<PatchOp("add", path, NumberValue(after))>> ELSE <<>>

\* the differences of one alias or resource at the path prefix p
DiffElement(p, before, after) ==
    RemovedKey(p \o "/metadataSchema", before.metadataSchema, after.metadataSchema)
    \o RemovedKey(p \o "/metadata", before.metadata, after.metadata)
    \o AddedStamp(p \o "/deleted", before.deleted, after.deleted)
    \o AddedKey(p \o "/metadataSchema", before.metadataSchema, after.metadataSchema)
    \o AddedKey(p \o "/metadata", before.metadata, after.metadata)
    \o AddedStamp(p \o "/updated", before.updated, after.updated)
    \o ReplacedKey(p \o "/metadataSchema", before.metadataSchema, after.metadataSchema)
    \o ReplacedKey(p \o "/metadata", before.metadata, after.metadata)

\* the differences of one edge at the path prefix p
DiffEdge(p, before, after) ==
    RemovedKey(p \o "/metadataSchema", before.metadataSchema, after.metadataSchema)
    \o RemovedKey(p \o "/metadata", before.metadata, after.metadata)
    \o AddedStamp(p \o "/deleted", before.deleted, after.deleted)
    \o AddedKey(p \o "/metadataSchema", before.metadataSchema, after.metadataSchema)
    \o AddedKey(p \o "/metadata", before.metadata, after.metadata)
    \o AddedStamp(p \o "/updated", before.updated, after.updated)
    \o ReplacedKey(p \o "/relationship", before.relationship, after.relationship)
    \o ReplacedKey(p \o "/metadataSchema", before.metadataSchema, after.metadataSchema)
    \o ReplacedKey(p \o "/metadata", before.metadata, after.metadata)

\* the differences of a collection both sides have
DiffArray(name, before, after, isEdge) ==
    Flatten([i \in 1..Len(before) |->
               IF isEdge
               THEN DiffEdge("/" \o name \o "/" \o ToString(i - 1), before[i], after[i])
               ELSE DiffElement("/" \o name \o "/" \o ToString(i - 1), before[i], after[i])])
    \o [i \in 1..(Len(after) - Len(before)) |->
          PatchOp("add", "/" \o name \o "/-", ObjectValue(after[Len(before) + i]))]

AddedArray(name, before, after) ==
    IF ~IsArrayValue(before) /\ IsArrayValue(after)
    THEN <<PatchOp("add", "/" \o name, ArrayValue(after))>> ELSE <<>>

CommonArray(name, before, after, isEdge) ==
    IF IsArrayValue(before) THEN DiffArray(name, before, after, isEdge) ELSE <<>>

Diff(original, updated) ==
    RemovedKey("/metadataSchema", original.metadataSchema, updated.metadataSchema)
    \o RemovedKey("/metadata", original.metadata, updated.metadata)
    \o AddedKey("/metadataSchema", original.metadataSchema, updated.metadataSchema)
    \o AddedKey("/metadata", original.metadata, updated.metadata)
    \o AddedArray("aliases", original.aliases, updated.aliases)
    \o AddedArray("resources", original.resources, updated.resources)
    \o AddedArray("edges", original.edges, updated.edges)
    \o ReplacedKey("/metadataSchema", original.metadataSchema, updated.metadataSchema)
    \o ReplacedKey("/metadata", original.metadata, updated.metadata)
    \o CommonArray("aliases", original.aliases, updated.aliases, FALSE)
    \o CommonArray("resources", original.resources, updated.resources, FALSE)
    \o CommonArray("edges", original.edges, updated.edges, TRUE)

\* ------------------------------------------------------------ collaborators
\* Blake2b-256 over the byte strings handed to update(), taken as collision
\* free: the digest determines the sequence of its inputs.
Blake2b(parts) == [digest |-> parts]

\* Converter.bytesToBase64 / Converter.base64ToBytes
bytesToBase64(bytes) == [base64 |-> bytes]
base64ToBytes(text) == text.base64

\* Number.prototype.toString followed by Converter.utf8ToBytes
EpochBytes(epoch) == ToString(epoch)

\* ObjectHelper.toBytes(patches): the JSON text of the patch list
PatchBytes(patches) == [json |-> patches]

\* the vault key name `${nodeIdentity}/${vaultKeyId}`
VaultKey(nodeIdentity) == nodeIdentity \o "/" \o VaultKeyId

\* IVaultConnector.sign: Ed25519 is deterministic in key and message
VaultSign(keyName, bytes) == [signedWith |-> keyName, message |-> bytes]

\* IVaultConnector.encrypt / decrypt with ChaCha20-Poly1305
VaultEncrypt(keyName, plaintext) == [encryptedWith |-> keyName, plaintext |-> plaintext]
VaultCanDecrypt(keyName, ciphertext) == ciphertext.encryptedWith = keyName
VaultDecrypt(keyName, ciphertext) == ciphertext.plaintext

\* JsonHelper.canonicalize of { created, userIdentity, patches }: keys sorted
CanonicalizeIntegrity(created, userIdentity, patches) ==
    [canonical |-> [created |-> created, patches |-> patches,
                    userIdentity |-> userIdentity]]

\* IIdentityConnector.createVerifiableCredential: the JWT carries the subject
\* data and is issued under the assertion method of the node identity
CreateVerifiableCredential(nodeIdentity, credentialData) ==
    [kid |-> nodeIdentity \o "#" \o AssertionMethodId,
     issuer |-> nodeIdentity,
     credentialSubject |-> credentialData]

\* ------------------------------------------------------------ addChangeset
\* the digest of one changeset without the link to the previous one
ChangesetDigest_Unchained(prev, created, userIdentity, patches) ==
    Blake2b(<<EpochBytes(created), userIdentity, PatchBytes(patches)>>)

\* The digest of one changeset, chained to the digest bytes of the previous one
\* (prev is the empty sequence when there is no previous changeset).
ChangesetDigest(prev, created, userIdentity, patches) ==
    Blake2b(prev \o <<EpochBytes(created), userIdentity, PatchBytes(patches)>>)

\* addChangeset overwriting the last changeset instead of appending
addChangeset_Replacing(context, originalModel, updatedModel, integrityCheck, storageId) ==
    LET patches == Diff(originalModel, updatedModel)
        changeSets == originalModel.changesets
        changeSetHash == ChangesetDigest(<<>>, context.now, context.userIdentity, patches)
        signature == VaultSign(VaultKey(context.nodeIdentity), changeSetHash)
        credentialData == [signature |-> bytesToBase64(signature), integrity |-> <<>>]
        changeset == [created |-> context.now,
                      userIdentity |-> context.userIdentity,
                      patches |-> patches,
                      hash |-> bytesToBase64(changeSetHash),
                      immutableStorageId |-> storageId]
    IN IF Len(patches) > 0 \/ Len(changeSets) = 0
       THEN [changes |-> TRUE,
             changesets |-> IF Len(changeSets) = 0 THEN <<changeset>>
                            ELSE [changeSets EXCEPT ![Len(changeSets)] = changeset],
             credential |-> <<CreateVerifiableCredential(context.nodeIdentity, credentialData)>>]
       ELSE [changes |-> FALSE,
             changesets |-> updatedModel.changesets,
             credential |-> <<>>]

\* addChangeset adding a changeset only when the diff is not empty
addChangeset_OnlyForPatches(context, originalModel, updatedModel, integrityCheck, storageId) ==
    LET patches == Diff(originalModel, updatedModel)
        changeSets == originalModel.changesets
        prev == IF Len(changeSets) > 0
                THEN <<base64ToBytes(changeSets[Len(changeSets)].hash)>>
                ELSE <<>>
        changeSetHash == ChangesetDigest(prev, context.now, context.userIdentity, patches)
        signature == VaultSign(VaultKey(context.nodeIdentity), changeSetHash)
        credentialData == [signature |-> bytesToBase64(signature), integrity |-> <<>>]
    IN IF Len(patches) > 0
       THEN [changes |-> TRUE,
             changesets |-> Append(changeSets,
                 [created |-> context.now,
                  userIdentity |-> context.userIdentity,
                  patches |-> patches,
                  hash |-> bytesToBase64(changeSetHash),
                  immutableStorageId |-> storageId]),
             credential |-> <<CreateVerifiableCredential(context.nodeIdentity, credentialData)>>]
       ELSE [changes |-> FALSE,
             changesets |-> updatedModel.changesets,
             credential |-> <<>>]

\* addChangeset that never adds the integrity payload to the credential
addChangeset_SignatureOnly(context, originalModel, updatedModel, integrityCheck, storageId) ==
    LET patches == Diff(originalModel, updatedModel)
        changeSets == originalModel.changesets
        prev == IF Len(changeSets) > 0
                THEN <<base64ToBytes(changeSets[Len(changeSets)].hash)>>
                ELSE <<>>
        changeSetHash == ChangesetDigest(prev, context.now, context.userIdentity, patches)
        signature == VaultSign(VaultKey(context.nodeIdentity), changeSetHash)
        credentialData == [signature |-> bytesToBase64(signature), integrity |-> <<>>]
    IN IF Len(patches) > 0 \/ Len(changeSets) = 0
       THEN [changes |-> TRUE,
             changesets |-> Append(changeSets,
                 [created |-> context.now,
                  userIdentity |-> context.userIdentity,
                  patches |-> patches,
                  hash |-> bytesToBase64(changeSetHash),
                  immutableStorageId |-> storageId]),
             credential |-> <<CreateVerifiableCredential(context.nodeIdentity, credentialData)>>]
       ELSE [changes |-> FALSE,
             changesets |-> updatedModel.changesets,
             credential |-> <<>>]

\* addChangeset stamping a later changeset with the time of the one before it
addChangeset_StampingPrevious(context, originalModel, updatedModel, integrityCheck, storageId) ==
    LET patches == Diff(originalModel, updatedModel)
        changeSets == originalModel.changesets
        prev == IF Len(changeSets) > 0
                THEN <<base64ToBytes(changeSets[Len(changeSets)].hash)>>
                ELSE <<>>
        stamp == IF Len(changeSets) > 0
                 THEN changeSets[Len(changeSets)].created
                 ELSE context.now
        changeSetHash == ChangesetDigest(prev, stamp, context.userIdentity, patches)
        signature == VaultSign(VaultKey(context.nodeIdentity), changeSetHash)
        integrity ==
            IF integrityCheck
            THEN <<bytesToBase64(VaultEncrypt(VaultKey(context.nodeIdentity),
                       CanonicalizeIntegrity(stamp, context.userIdentity, patches)))>>
            ELSE <<>>
        credentialData == [signature |-> bytesToBase64(signature), integrity |-> integrity]
    IN IF Len(patches) > 0 \/ Len(changeSets) = 0
       THEN [changes |-> TRUE,
             changesets |-> Append(changeSets,
                 [created |-> stamp,
                  userIdentity |-> context.userIdentity,
                  patches |-> patches,
                  hash |-> bytesToBase64(changeSetHash),
                  immutableStorageId |-> storageId]),
             credential |-> <<CreateVerifiableCredential(context.nodeIdentity, credentialData)>>]
       ELSE [changes |-> FALSE,
             changesets |-> updatedModel.changesets,
             credential |-> <<>>]

\* addChangeset: context is [now, userIdentity, nodeIdentity]; storageId is the id
\* the immutable storage hands out.  The result tells whether a changeset was
\* added, the changesets of the updated model and the credential that was stored.
addChangeset(context, originalModel, updatedModel, integrityCheck, storageId) ==
    LET patches == Diff(originalModel, updatedModel)
        changeSets == originalModel.changesets
        prev == IF Len(changeSets) > 0
                THEN <<base64ToBytes(changeSets[Len(changeSets)].hash)>>
                ELSE <<>>
        changeSetHash == ChangesetDigest(prev, context.now, context.userIdentity, patches)
        signature == VaultSign(VaultKey(context.nodeIdentity), changeSetHash)
        integrity ==
            IF integrityCheck
            THEN <<bytesToBase64(VaultEncrypt(VaultKey(context.nodeIdentity),
                       CanonicalizeIntegrity(context.now, context.userIdentity, patches)))>>
            ELSE <<>>
        credentialData == [signature |-> bytesToBase64(signature), integrity |-> integrity]
    IN IF Len(patches) > 0 \/ Len(changeSets) = 0
       THEN [changes |-> TRUE,
             changesets |-> Append(changeSets,
                 [created |-> context.now,
                  userIdentity |-> context.userIdentity,
                  patches |-> patches,
                  hash |-> bytesToBase64(changeSetHash),
                  immutableStorageId |-> storageId]),
             credential |-> <<CreateVerifiableCredential(context.nodeIdentity, credentialData)>>]
       ELSE [changes |-> FALSE,
             changesets |-> updatedModel.changesets,
             credential |-> <<>>]

\* ------------------------------------------------------------------ inputs
\* RandomHelper.generate(32) as hex: the n-th vertex gets the n-th fresh id
VertexIdSeq == <<<<"1", "a">>, <<"4", "b">>, <<"7", "c">>, <<"9", "d">>>>
VertexIds == {VertexIdSeq[n] : n \in DOMAIN VertexIdSeq}
NodeIdentities == {"did:node1", "did:node2"}

\* the callers that run update concurrently
Writers == {1, 2}

NoElements == [present |-> FALSE, items |-> <<>>]
Elements(items) == [present |-> TRUE, items |-> items]

ElementInput(id, metadataSchema, metadata) ==
    [id |-> id, metadataSchema |-> metadataSchema, metadata |-> metadata]
EdgeInput(id, relationship, metadata) ==
    [id |-> id, relationship |-> relationship,
     metadataSchema |-> UNDEF, metadata |-> metadata]

Request(schema, metadata, aliases, resources, edges, user, node) ==
    [metadataSchema |-> schema, metadata |-> metadata, aliases |-> aliases,
     resources |-> resources, edges |-> edges,
     userIdentity |-> user, nodeIdentity |-> node]

\* every argument undefined, called by user 1 on node 1
DefaultRequest ==
    Request(UNDEF, UNDEF, NoElements, NoElements, NoElements, "did:user1", "did:node1")

\* The callers of one run draw their arguments from one family of requests.
Workloads ==
    {"metadata", "aliases", "resources", "edges", "identities", "mixed", "audit",
     "query", "invalid"}

Requests(w) ==
    CASE w = "metadata" ->
            {DefaultRequest,
             [DefaultRequest EXCEPT !.metadataSchema = "schema1", !.metadata = "{a:1,b:2}"],
             [DefaultRequest EXCEPT !.metadataSchema = "schema1", !.metadata = "{b:2,a:1}"],
             [DefaultRequest EXCEPT !.metadataSchema = "schema2", !.metadata = "{c:3}"]}
      [] w = "aliases" ->
            {DefaultRequest,
             [DefaultRequest EXCEPT !.aliases = Elements(<<>>)],
             [DefaultRequest EXCEPT !.aliases =
                 Elements(<<ElementInput(<<"a">>, UNDEF, UNDEF)>>)],
             [DefaultRequest EXCEPT !.aliases =
                 Elements(<<ElementInput(<<"a">>, UNDEF, "{c:3}")>>)],
             [DefaultRequest EXCEPT !.aliases =
                 Elements(<<ElementInput(<<"B">>, UNDEF, UNDEF)>>)]}
      [] w = "resources" ->
            {DefaultRequest,
             [DefaultRequest EXCEPT !.resources = Elements(<<>>)],
             [DefaultRequest EXCEPT !.resources =
                 Elements(<<ElementInput(<<"r">>, UNDEF, UNDEF)>>)],
             [DefaultRequest EXCEPT !.resources =
                 Elements(<<ElementInput(<<"r">>, "schema1", UNDEF)>>)]}
      [] w = "edges" ->
            {DefaultRequest,
             [DefaultRequest EXCEPT !.edges = Elements(<<>>)],
             [DefaultRequest EXCEPT !.edges =
                 Elements(<<EdgeInput(<<"e">>, "friend", UNDEF)>>)],
             [DefaultRequest EXCEPT !.edges =
                 Elements(<<EdgeInput(<<"e">>, "enemy", UNDEF)>>)]}
      [] w = "identities" ->
            {DefaultRequest,
             [DefaultRequest EXCEPT !.metadata = "{c:3}", !.userIdentity = "did:user2"],
             [DefaultRequest EXCEPT !.metadata = "{a:1,b:2}", !.nodeIdentity = "did:node2"]}
      [] w = "mixed" ->
            {DefaultRequest,
             Request("schema1", "{a:1,b:2}",
                     Elements(<<ElementInput(<<"a">>, UNDEF, UNDEF)>>),
                     Elements(<<ElementInput(<<"r">>, UNDEF, UNDEF)>>),
                     Elements(<<EdgeInput(<<"e">>, "friend", UNDEF)>>),
                     "did:user1", "did:node1"),
             Request("schema1", "{a:1,b:2}",
                     Elements(<<ElementInput(<<"a">>, UNDEF, UNDEF),
                                ElementInput(<<"B">>, "schema1", "{c:3}")>>),
                     Elements(<<>>),
                     Elements(<<EdgeInput(<<"e">>, "friend", "{c:3}")>>),
                     "did:user2", "did:node1")}
      [] w = "query" ->
            {[DefaultRequest EXCEPT !.aliases = Elements(<<>>)],
             [DefaultRequest EXCEPT !.aliases =
                 Elements(<<ElementInput(<<"4", "B">>, UNDEF, UNDEF)>>)]}
      [] w = "audit" ->
            {DefaultRequest,
             [DefaultRequest EXCEPT !.metadata = "{c:3}", !.aliases =
                 Elements(<<ElementInput(<<"a">>, UNDEF, UNDEF)>>)]}
      [] w = "invalid" ->
            {DefaultRequest,
             [DefaultRequest EXCEPT !.metadata = "{c:3}"],
             [DefaultRequest EXCEPT !.metadata = "{c:3}", !.userIdentity = ""],
             [DefaultRequest EXCEPT !.metadata = "{c:3}", !.nodeIdentity = ""],
             [DefaultRequest EXCEPT !.aliases =
                 Elements(<<ElementInput(<<"a">>, UNDEF, UNDEF),
                            ElementInput(<<>>, UNDEF, UNDEF)>>)],
             [DefaultRequest EXCEPT !.resources =
                 Elements(<<ElementInput(<<>>, UNDEF, UNDEF)>>)],
             [DefaultRequest EXCEPT !.edges =
                 Elements(<<EdgeInput(<<>>, "friend", UNDEF)>>)],
             [DefaultRequest EXCEPT !.edges =
                 Elements(<<EdgeInput(<<"e">>, "", UNDEF)>>)]}

VerifyDepths == {"none", "current", "all"}

\* the options the callers use: at most one departs from { verifySignatureDepth: "all" }
DefaultOptions ==
    [includeDeleted |-> FALSE, includeChangesets |-> FALSE, verifySignatureDepth |-> "all"]
GetOptions ==
    {[DefaultOptions EXCEPT !.includeDeleted = b] : b \in BOOLEAN}
    \cup {[DefaultOptions EXCEPT !.includeChangesets = b] : b \in BOOLEAN}
    \cup {[DefaultOptions EXCEPT !.verifySignatureDepth = d] : d \in VerifyDepths}

\* ------------------------------------------------------------------- state
VARIABLES
    vertexStorage,        \* _vertexStorage: vertex id -> stored entity
    immutableStorage,     \* _integrityImmutableStorage: storage id -> credential
    immutableSeq,         \* number of records the immutable storage has handed out
    revoked,              \* storage ids of the credentials the issuer has revoked
    tampered,             \* the out-of-band changes made to the vertex storage
    enableIntegrityCheck, \* _enableIntegrityCheck
    workload,             \* the family of requests the callers of this run use
    clock,                \* the last value Date.now() returned
    lastRequest,          \* vertex id -> arguments of its last successful create/update
    response,             \* the outcome of the call that has just returned
    pending               \* writer -> the update it has in flight

vars == <<vertexStorage, immutableStorage, immutableSeq, revoked, tampered,
          enableIntegrityCheck, workload, clock, lastRequest, response, pending>>

\* no call has returned since the caller took the last response; cause is the
\* error a failure wraps, recorded for a vertex that is not found
NoResponse ==
    [op |-> "none", status |-> "ok", namespace |-> NAMESPACE, id |-> <<>>,
     options |-> DefaultOptions, cause |-> UNDEF,
     calls |-> {}, vertex |-> <<>>, verified |-> <<>>, verification |-> <<>>,
     query |-> <<>>, entities |-> <<>>]

\* a writer with no update in flight; a writer in flight holds the arguments of
\* its update, the time it read, the entity it loaded and the storage id of its
\* credential, and a writer that is done the rank of its set among the sets
Idle ==
    [phase |-> "idle", id |-> <<>>, request |-> <<>>, now |-> 0, base |-> <<>>,
     storageId |-> NoStorageId, order |-> 0]

Init ==
    /\ vertexStorage = <<>>
    /\ immutableStorage = <<>>
    /\ immutableSeq = 0
    /\ revoked = {}
    /\ tampered = {}
    /\ enableIntegrityCheck \in BOOLEAN
    /\ workload \in Workloads
    /\ clock = 1
    /\ lastRequest = <<>>
    /\ response = NoResponse
    /\ pending = [w \in Writers |-> Idle]

RECURSIVE SumChangesets(_, _)
SumChangesets(storage, ids) ==
    IF ids = {} THEN 0
    ELSE LET id == CHOOSE x \in ids : TRUE
         IN Len(storage[id].changesets) + SumChangesets(storage, ids \ {id})

TotalChangesets == SumChangesets(vertexStorage, DOMAIN vertexStorage)

\* the number of vertices the callers of the run create
VertexLimit == IF workload = "query" THEN MaxQueryVertices ELSE MaxVertices

\* Date.now(): the clock never goes backwards
ClockReadings == {t \in {clock, clock + 1} : t <= MaxClock}

Put(f, k, v) == [x \in DOMAIN f \cup {k} |-> IF x = k THEN v ELSE f[x]]

\* The URNs the callers pass: the stored vertices, one id that is not stored
\* and one URN of another namespace.
NextVertexId == VertexIdSeq[Cardinality(DOMAIN vertexStorage) + 1]
Urns ==
    {[namespace |-> NAMESPACE, id |-> id] : id \in DOMAIN vertexStorage \cup {NextVertexId}}
    \cup {[namespace |-> "other", id |-> VertexIdSeq[1]]}

\* the collaborator calls addChangeset makes when it adds a changeset
AddChangesetCalls(integrityCheck) ==
    {"vault.sign", "identity.createVerifiableCredential", "immutable.store"}
    \cup IF integrityCheck THEN {"vault.encrypt"} ELSE {}

\* the part of create and update that writes the arguments into the model
ApplyRequest(now, vertexModel, request) ==
    [vertexModel EXCEPT
        !.metadataSchema = request.metadataSchema,
        !.metadata = request.metadata,
        !.aliases = updateAliasList(now, vertexModel.aliases, request.aliases),
        !.resources = updateResourceList(now, vertexModel.resources, request.resources),
        !.edges = updateEdgeList(now, vertexModel.edges, request.edges)]

GuardRequest(request) ==
    /\ GuardElements(request.aliases)
    /\ GuardElements(request.resources)
    /\ GuardEdges(request.edges)

\* ------------------------------------------------------------------ create
Create(request, now) ==
    LET id == NextVertexId
        context == [now |-> now, userIdentity |-> request.userIdentity,
                    nodeIdentity |-> request.nodeIdentity]
        originalModel ==
            [id |-> id, nodeIdentity |-> request.nodeIdentity,
             created |-> now, updated |-> now,
             metadataSchema |-> UNDEF, metadata |-> UNDEF,
             aliases |-> <<>>, resources |-> <<>>, edges |-> <<>>, changesets |-> <<>>]
        vertexModel == ApplyRequest(now, originalModel, request)
        storageId == immutableSeq + 1
        added == addChangeset(context, originalModel, vertexModel,
                              enableIntegrityCheck, storageId)
        stored == [vertexModel EXCEPT !.changesets = added.changesets]
        base == [NoResponse EXCEPT !.op = "create", !.id = id]
    IN
    /\ response = NoResponse
    /\ Cardinality(DOMAIN vertexStorage) < VertexLimit
    /\ TotalChangesets < MaxChangesets
    /\ IF request.userIdentity = "" \/ request.nodeIdentity = ""
       THEN /\ response' = [base EXCEPT !.status = "guard"]
            /\ UNCHANGED <<vertexStorage, immutableStorage, immutableSeq,
                           lastRequest, clock>>
       ELSE IF ~GuardRequest(request)
       THEN /\ clock' = now
            /\ response' = [base EXCEPT !.status = "createFailed"]
            /\ UNCHANGED <<vertexStorage, immutableStorage, immutableSeq, lastRequest>>
       ELSE /\ clock' = now
            /\ immutableStorage' =
                  IF added.changes
                  THEN Put(immutableStorage, storageId, added.credential[1])
                  ELSE immutableStorage
            /\ immutableSeq' = IF added.changes THEN storageId ELSE immutableSeq
            /\ vertexStorage' = Put(vertexStorage, id, vertexModelToEntity(stored))
            /\ lastRequest' = Put(lastRequest, id, request)
            /\ response' = [base EXCEPT
                   !.calls = (IF added.changes
                              THEN AddChangesetCalls(enableIntegrityCheck) ELSE {})
                             \cup {"vertex.set"}]
    /\ UNCHANGED <<revoked, tampered, enableIntegrityCheck, workload, pending>>

\* ------------------------------------------------------------------ update
Update(namespace, id, request, now) ==
    LET context == [now |-> now, userIdentity |-> request.userIdentity,
                    nodeIdentity |-> request.nodeIdentity]
        originalModel == vertexEntityToModel(vertexStorage[id])
        vertexModel == ApplyRequest(now, originalModel, request)
        storageId == immutableSeq + 1
        added == addChangeset(context, originalModel, vertexModel,
                              enableIntegrityCheck, storageId)
        stored == [vertexModel EXCEPT !.changesets = added.changesets,
                                      !.updated = now]
        base == [NoResponse EXCEPT !.op = "update", !.namespace = namespace, !.id = id]
    IN
    /\ response = NoResponse
    /\ IF request.userIdentity = "" \/ request.nodeIdentity = ""
       THEN /\ response' = [base EXCEPT !.status = "guard"]
            /\ UNCHANGED <<vertexStorage, immutableStorage, immutableSeq,
                           lastRequest, clock>>
       ELSE IF namespace # NAMESPACE
       THEN /\ response' = [base EXCEPT !.status = "namespaceMismatch"]
            /\ UNCHANGED <<vertexStorage, immutableStorage, immutableSeq,
                           lastRequest, clock>>
       ELSE IF id \notin DOMAIN vertexStorage
       THEN /\ response' = [base EXCEPT !.status = "updateFailed",
                                        !.cause = "vertexNotFound",
                                        !.calls = {"vertex.get"}]
            /\ UNCHANGED <<vertexStorage, immutableStorage, immutableSeq,
                           lastRequest, clock>>
       ELSE IF ~GuardRequest(request)
       THEN /\ clock' = now
            /\ response' = [base EXCEPT !.status = "updateFailed",
                                        !.calls = {"vertex.get"}]
            /\ UNCHANGED <<vertexStorage, immutableStorage, immutableSeq, lastRequest>>
       ELSE IF added.changes
       THEN /\ TotalChangesets < MaxChangesets
            /\ clock' = now
            /\ immutableStorage' = Put(immutableStorage, storageId, added.credential[1])
            /\ immutableSeq' = storageId
            /\ vertexStorage' = Put(vertexStorage, id, vertexModelToEntity(stored))
            /\ lastRequest' = Put(lastRequest, id, request)
            /\ response' = [base EXCEPT
                   !.calls = {"vertex.get"} \cup AddChangesetCalls(enableIntegrityCheck)
                             \cup {"vertex.set"}]
       ELSE /\ clock' = now
            /\ lastRequest' = Put(lastRequest, id, request)
            /\ response' = [base EXCEPT !.calls = {"vertex.get"}]
            /\ UNCHANGED <<vertexStorage, immutableStorage, immutableSeq>>
    /\ UNCHANGED <<revoked, tampered, enableIntegrityCheck, workload, pending>>

\* --------------------------------------------------------- removeImmutable
RECURSIVE RemoveImmutableLoop_AlwaysChanged(_, _, _)
\* the loop of removeImmutable setting hasChanged for every changeset it visits
RemoveImmutableLoop_AlwaysChanged(changesets, i, acc) ==
    IF i > Len(changesets) \/ acc.failed THEN acc
    ELSE LET sid == changesets[i].immutableStorageId IN
         IF sid = NoStorageId
         THEN RemoveImmutableLoop_AlwaysChanged(changesets, i + 1,
                  [acc EXCEPT !.hasChanged = TRUE])
         ELSE IF sid \notin DOMAIN acc.storage
         THEN [acc EXCEPT !.failed = TRUE]
         ELSE RemoveImmutableLoop_AlwaysChanged(changesets, i + 1,
                  [acc EXCEPT
                     !.storage = [x \in DOMAIN acc.storage \ {sid} |-> acc.storage[x]],
                     !.changesets[i].immutableStorageId = NoStorageId,
                     !.hasChanged = TRUE])

RECURSIVE RemoveImmutableLoop(_, _, _)
\* the loop over the changesets of the loaded entity: acc is
\* [failed, storage, changesets, hasChanged]; remove fails for an unknown id
RemoveImmutableLoop(changesets, i, acc) ==
    IF i > Len(changesets) \/ acc.failed THEN acc
    ELSE LET sid == changesets[i].immutableStorageId IN
         IF sid = NoStorageId
         THEN RemoveImmutableLoop(changesets, i + 1, acc)
         ELSE IF sid \notin DOMAIN acc.storage
         THEN [acc EXCEPT !.failed = TRUE]
         ELSE RemoveImmutableLoop(changesets, i + 1,
                  [acc EXCEPT
                     !.storage = [x \in DOMAIN acc.storage \ {sid} |-> acc.storage[x]],
                     !.changesets[i].immutableStorageId = NoStorageId,
                     !.hasChanged = TRUE])

\* removeImmutable without the set that persists the cleared ids
RemoveImmutable_NotPersisting(namespace, id, nodeIdentity) ==
    LET vertexEntity == vertexStorage[id]
        done == RemoveImmutableLoop(vertexEntity.changesets, 1,
                    [failed |-> FALSE, storage |-> immutableStorage,
                     changesets |-> vertexEntity.changesets, hasChanged |-> FALSE])
    IN
    /\ response = NoResponse
    /\ namespace = NAMESPACE
    /\ id \in DOMAIN vertexStorage
    /\ ~done.failed
    /\ immutableStorage' = done.storage
    /\ response' = [NoResponse EXCEPT !.op = "removeImmutable", !.id = id,
                                      !.calls = {"vertex.get", "immutable.remove"}]
    /\ UNCHANGED <<vertexStorage, immutableSeq, revoked, tampered,
                   enableIntegrityCheck, workload, pending, clock, lastRequest>>

\* removeImmutable without the comparison of the URN namespace
RemoveImmutable_AnyNamespace(namespace, id, nodeIdentity) ==
    LET base == [NoResponse EXCEPT !.op = "removeImmutable",
                                   !.namespace = namespace, !.id = id]
        vertexEntity == vertexStorage[id]
        done == RemoveImmutableLoop(vertexEntity.changesets, 1,
                    [failed |-> FALSE, storage |-> immutableStorage,
                     changesets |-> vertexEntity.changesets, hasChanged |-> FALSE])
    IN
    /\ response = NoResponse
    /\ IF nodeIdentity = ""
       THEN /\ response' = [base EXCEPT !.status = "guard"]
            /\ UNCHANGED <<vertexStorage, immutableStorage>>
       ELSE IF id \notin DOMAIN vertexStorage
       THEN /\ response' = [base EXCEPT !.status = "removeImmutableFailed",
                                        !.cause = "vertexNotFound",
                                        !.calls = {"vertex.get"}]
            /\ UNCHANGED <<vertexStorage, immutableStorage>>
       ELSE IF done.failed
       THEN /\ immutableStorage' = done.storage
            /\ response' = [base EXCEPT !.status = "removeImmutableFailed",
                                        !.calls = {"vertex.get", "immutable.remove"}]
            /\ UNCHANGED vertexStorage
       ELSE IF done.hasChanged
       THEN /\ immutableStorage' = done.storage
            /\ vertexStorage' = [vertexStorage EXCEPT
                                    ![id] = [@ EXCEPT !.changesets = done.changesets]]
            /\ response' = [base EXCEPT
                   !.calls = {"vertex.get", "immutable.remove", "vertex.set"}]
       ELSE /\ response' = [base EXCEPT !.calls = {"vertex.get"}]
            /\ UNCHANGED <<vertexStorage, immutableStorage>>
    /\ UNCHANGED <<immutableSeq, revoked, tampered, enableIntegrityCheck, workload, pending,
                   clock, lastRequest>>

RemoveImmutable(namespace, id, nodeIdentity) ==
    LET base == [NoResponse EXCEPT !.op = "removeImmutable",
                                   !.namespace = namespace, !.id = id]
        vertexEntity == vertexStorage[id]
        done == RemoveImmutableLoop(vertexEntity.changesets, 1,
                    [failed |-> FALSE, storage |-> immutableStorage,
                     changesets |-> vertexEntity.changesets, hasChanged |-> FALSE])
    IN
    /\ response = NoResponse
    /\ IF nodeIdentity = ""
       THEN /\ response' = [base EXCEPT !.status = "guard"]
            /\ UNCHANGED <<vertexStorage, immutableStorage>>
       ELSE IF namespace # NAMESPACE
       THEN /\ response' = [base EXCEPT !.status = "namespaceMismatch"]
            /\ UNCHANGED <<vertexStorage, immutableStorage>>
       ELSE IF id \notin DOMAIN vertexStorage
       THEN /\ response' = [base EXCEPT !.status = "removeImmutableFailed",
                                        !.cause = "vertexNotFound",
                                        !.calls = {"vertex.get"}]
            /\ UNCHANGED <<vertexStorage, immutableStorage>>
       ELSE IF done.failed
       THEN /\ immutableStorage' = done.storage
            /\ response' = [base EXCEPT !.status = "removeImmutableFailed",
                                        !.calls = {"vertex.get", "immutable.remove"}]
            /\ UNCHANGED vertexStorage
       ELSE IF done.hasChanged
       THEN /\ immutableStorage' = done.storage
            /\ vertexStorage' = [vertexStorage EXCEPT
                                    ![id] = [@ EXCEPT !.changesets = done.changesets]]
            /\ response' = [base EXCEPT
                   !.calls = {"vertex.get", "immutable.remove", "vertex.set"}]
       ELSE /\ response' = [base EXCEPT !.calls = {"vertex.get"}]
            /\ UNCHANGED <<vertexStorage, immutableStorage>>
    /\ UNCHANGED <<immutableSeq, revoked, tampered, enableIntegrityCheck, workload, pending,
                   clock, lastRequest>>

\* -------------------------------------------------------- verifyChangesets
\* the credential checks comparing the signature before looking at revocation
CheckCredential_SignatureFirst(vertex, changeset, verifyHash, storage, revokedIds) ==
    LET changesetSignature == VaultSign(VaultKey(vertex.nodeIdentity), verifyHash)
        sid == changeset.immutableStorageId
        none == [threw |-> FALSE, failure |-> UNDEF, integrityChangeset |-> <<>>,
                 integrityNodeIdentity |-> UNDEF, integrityUserIdentity |-> UNDEF]
    IN IF sid = NoStorageId THEN none
       ELSE IF sid \notin DOMAIN storage THEN [none EXCEPT !.threw = TRUE]
       ELSE LET jwt == storage[sid]
                credentialData == jwt.credentialSubject
                seen == [none EXCEPT !.integrityNodeIdentity = jwt.issuer]
            IN IF credentialData.signature # bytesToBase64(changesetSignature)
               THEN [seen EXCEPT !.failure = "invalidChangesetSignature"]
               ELSE IF sid \in revokedIds
               THEN [none EXCEPT !.failure = "changesetCredentialRevoked"]
               ELSE IF Len(credentialData.integrity) = 0 THEN seen
               ELSE LET encrypted == base64ToBytes(credentialData.integrity[1])
                        key == VaultKey(vertex.nodeIdentity)
                    IN IF ~VaultCanDecrypt(key, encrypted)
                       THEN [seen EXCEPT !.threw = TRUE]
                       ELSE LET canonical == VaultDecrypt(key, encrypted)
                                parsed == canonical.canonical
                            IN [seen EXCEPT
                                  !.failure =
                                      IF canonical # CanonicalizeIntegrity(
                                             changeset.created, changeset.userIdentity,
                                             changeset.patches)
                                      THEN "invalidChangesetCanonical" ELSE UNDEF,
                                  !.integrityChangeset = <<parsed.patches>>,
                                  !.integrityUserIdentity = parsed.userIdentity]

\* The credential checks of one changeset whose hash matched: the failure found
\* (UNDEF if none), whether a collaborator threw, and what was read from the
\* credential for the failure properties.
CheckCredential(vertex, changeset, verifyHash, storage, revokedIds) ==
    LET changesetSignature == VaultSign(VaultKey(vertex.nodeIdentity), verifyHash)
        sid == changeset.immutableStorageId
        none == [threw |-> FALSE, failure |-> UNDEF, integrityChangeset |-> <<>>,
                 integrityNodeIdentity |-> UNDEF, integrityUserIdentity |-> UNDEF]
    IN IF sid = NoStorageId THEN none
       ELSE IF sid \notin DOMAIN storage THEN [none EXCEPT !.threw = TRUE]
       ELSE LET jwt == storage[sid]
                credentialData == jwt.credentialSubject
                seen == [none EXCEPT !.integrityNodeIdentity = jwt.issuer]
            IN IF sid \in revokedIds
               THEN [none EXCEPT !.failure = "changesetCredentialRevoked"]
               ELSE IF credentialData.signature # bytesToBase64(changesetSignature)
               THEN [seen EXCEPT !.failure = "invalidChangesetSignature"]
               ELSE IF Len(credentialData.integrity) = 0 THEN seen
               ELSE LET encrypted == base64ToBytes(credentialData.integrity[1])
                        key == VaultKey(vertex.nodeIdentity)
                    IN IF ~VaultCanDecrypt(key, encrypted)
                       THEN [seen EXCEPT !.threw = TRUE]
                       ELSE LET canonical == VaultDecrypt(key, encrypted)
                                parsed == canonical.canonical
                            IN [seen EXCEPT
                                  !.failure =
                                      IF canonical # CanonicalizeIntegrity(
                                             changeset.created, changeset.userIdentity,
                                             changeset.patches)
                                      THEN "invalidChangesetCanonical" ELSE UNDEF,
                                  !.integrityChangeset = <<parsed.patches>>,
                                  !.integrityUserIdentity = parsed.userIdentity]

RECURSIVE VerifyFrom_ChainingStored(_, _, _, _, _, _, _)
\* the loop of verifyChangesets chaining the stored hash of the previous
\* changeset, not the digest computed for it, into the next digest
VerifyFrom_ChainingStored(vertex, depth, i, lastHash, acc, storage, revokedIds) ==
    IF i > Len(vertex.changesets) \/ acc.threw THEN acc
    ELSE LET calculatedChangeset == vertex.changesets[i]
             verifyHash == ChangesetDigest(lastHash, calculatedChangeset.created,
                               calculatedChangeset.userIdentity,
                               calculatedChangeset.patches)
             verify == [created |-> calculatedChangeset.created,
                        patches |-> calculatedChangeset.patches,
                        failure |-> UNDEF, failureProperties |-> <<>>]
             inDepth == \/ depth = "all"
                        \/ depth = "current" /\ i = Len(vertex.changesets)
             checked == CheckCredential(vertex, calculatedChangeset, verifyHash,
                                        storage, revokedIds)
             next ==
                IF bytesToBase64(verifyHash) # calculatedChangeset.hash
                THEN [acc EXCEPT !.verification =
                        Append(@, [verify EXCEPT !.failure = "invalidChangesetHash"])]
                ELSE IF ~inDepth
                THEN [acc EXCEPT !.verification = Append(@, verify)]
                ELSE IF checked.threw
                THEN [acc EXCEPT !.threw = TRUE]
                ELSE IF checked.failure # UNDEF
                THEN [acc EXCEPT
                        !.verified = FALSE,
                        !.verification = Append(@,
                            [verify EXCEPT
                               !.failure = checked.failure,
                               !.failureProperties =
                                  <<[hash |-> calculatedChangeset.hash,
                                     epoch |-> calculatedChangeset.created,
                                     calculatedChangeset |-> calculatedChangeset,
                                     integrityChangeset |-> checked.integrityChangeset,
                                     integrityNodeIdentity |-> checked.integrityNodeIdentity,
                                     integrityUserIdentity |-> checked.integrityUserIdentity]>>])]
                ELSE [acc EXCEPT !.verification = Append(@, verify)]
         IN VerifyFrom_ChainingStored(vertex, depth, i + 1,
                <<base64ToBytes(calculatedChangeset.hash)>>, next, storage, revokedIds)

RECURSIVE VerifyFrom(_, _, _, _, _, _, _)
\* the loop of verifyChangesets from changeset i on; lastHash is the sequence
\* holding the digest of the previous iteration, empty before the first
VerifyFrom(vertex, depth, i, lastHash, acc, storage, revokedIds) ==
    IF i > Len(vertex.changesets) \/ acc.threw THEN acc
    ELSE LET calculatedChangeset == vertex.changesets[i]
             verifyHash == ChangesetDigest(lastHash, calculatedChangeset.created,
                               calculatedChangeset.userIdentity,
                               calculatedChangeset.patches)
             verify == [created |-> calculatedChangeset.created,
                        patches |-> calculatedChangeset.patches,
                        failure |-> UNDEF, failureProperties |-> <<>>]
             inDepth == \/ depth = "all"
                        \/ depth = "current" /\ i = Len(vertex.changesets)
             checked == CheckCredential(vertex, calculatedChangeset, verifyHash,
                                        storage, revokedIds)
             next ==
                IF bytesToBase64(verifyHash) # calculatedChangeset.hash
                THEN [acc EXCEPT !.verification =
                        Append(@, [verify EXCEPT !.failure = "invalidChangesetHash"])]
                ELSE IF ~inDepth
                THEN [acc EXCEPT !.verification = Append(@, verify)]
                ELSE IF checked.threw
                THEN [acc EXCEPT !.threw = TRUE]
                ELSE IF checked.failure # UNDEF
                THEN [acc EXCEPT
                        !.verified = FALSE,
                        !.verification = Append(@,
                            [verify EXCEPT
                               !.failure = checked.failure,
                               !.failureProperties =
                                  <<[hash |-> calculatedChangeset.hash,
                                     epoch |-> calculatedChangeset.created,
                                     calculatedChangeset |-> calculatedChangeset,
                                     integrityChangeset |-> checked.integrityChangeset,
                                     integrityNodeIdentity |-> checked.integrityNodeIdentity,
                                     integrityUserIdentity |-> checked.integrityUserIdentity]>>])]
                ELSE [acc EXCEPT !.verification = Append(@, verify)]
         IN VerifyFrom(vertex, depth, i + 1, <<verifyHash>>, next, storage, revokedIds)

\* verifyChangesets reporting the changesets with a failure only
verifyChangesets_FailuresOnly(vertex, depth, storage, revokedIds) ==
    LET result == VerifyFrom(vertex, depth, 1, <<>>,
                      [threw |-> FALSE, verified |-> TRUE, verification |-> <<>>],
                      storage, revokedIds)
    IN [result EXCEPT !.verification = SelectSeq(@, LAMBDA v : v.failure # UNDEF)]

\* verifyChangesets checking the credential of every changeset at any depth
verifyChangesets_EveryDepthAll(vertex, depth, storage, revokedIds) ==
    VerifyFrom(vertex, "all", 1, <<>>,
               [threw |-> FALSE, verified |-> TRUE, verification |-> <<>>],
               storage, revokedIds)

verifyChangesets(vertex, depth, storage, revokedIds) ==
    VerifyFrom(vertex, depth, 1, <<>>,
               [threw |-> FALSE, verified |-> TRUE, verification |-> <<>>],
               storage, revokedIds)

\* --------------------------------------------------------------------- get
\* a filter that keeps every element
WithoutDeleted_KeepingAll(list) == list

\* Array.prototype.filter(x => Is.undefined(x.deleted))
WithoutDeleted(list) == SelectSeq(list, LAMBDA x : x.deleted = NoStamp)

\* One collection of the model get returns: whether the returned object has
\* the property and the elements it holds.  The entity-to-model conversion sets
\* the property for a non-empty array only, and the filter deletes the property
\* when no element is left.
ReturnedCollection(list, includeDeleted) ==
    IF ~IsArrayValue(list) THEN [present |-> FALSE, items |-> <<>>]
    ELSE IF includeDeleted THEN [present |-> TRUE, items |-> list]
    ELSE LET live == WithoutDeleted(list)
         IN [present |-> Len(live) # 0, items |-> live]

\* what get returns for a stored entity: [status, vertex, verified, verification];
\* keys holds the names of the collections the returned vertex object has
GetResult(vertexEntity, options, storage, revokedIds) ==
    LET vertexModel == vertexEntityToModel(vertexEntity)
        verifies == options.verifySignatureDepth \in {"current", "all"}
        verifyResult == verifyChangesets(vertexModel, options.verifySignatureDepth,
                                         storage, revokedIds)
        aliases == ReturnedCollection(vertexModel.aliases, options.includeDeleted)
        resources == ReturnedCollection(vertexModel.resources, options.includeDeleted)
        edges == ReturnedCollection(vertexModel.edges, options.includeDeleted)
        changesets == IF options.includeChangesets THEN vertexModel.changesets ELSE <<>>
        returned ==
            [id |-> vertexModel.id, nodeIdentity |-> vertexModel.nodeIdentity,
             created |-> vertexModel.created, updated |-> vertexModel.updated,
             metadataSchema |-> vertexModel.metadataSchema,
             metadata |-> vertexModel.metadata,
             aliases |-> aliases.items, resources |-> resources.items,
             edges |-> edges.items, changesets |-> changesets,
             keys |-> (IF aliases.present THEN {"aliases"} ELSE {})
                      \cup (IF resources.present THEN {"resources"} ELSE {})
                      \cup (IF edges.present THEN {"edges"} ELSE {})
                      \cup (IF options.includeChangesets THEN {"changesets"} ELSE {})]
    IN IF verifies /\ verifyResult.threw
       THEN [status |-> "getFailed", vertex |-> <<>>, verified |-> <<>>,
             verification |-> <<>>]
       ELSE [status |-> "ok", vertex |-> <<returned>>,
             verified |-> IF verifies THEN <<verifyResult.verified>> ELSE <<>>,
             verification |-> IF verifies THEN verifyResult.verification ELSE <<>>]

\* get filtering and stripping the loaded entity itself and writing it back
Get_FilteringInPlace(namespace, id, options) ==
    LET base == [NoResponse EXCEPT !.op = "get", !.namespace = namespace, !.id = id]
        result == GetResult(vertexStorage[id], options, immutableStorage, revoked)
        stripped == [vertexStorage[id] EXCEPT
            !.aliases = IF options.includeDeleted THEN @ ELSE WithoutDeleted(@),
            !.resources = IF options.includeDeleted THEN @ ELSE WithoutDeleted(@),
            !.edges = IF options.includeDeleted THEN @ ELSE WithoutDeleted(@),
            !.changesets = IF options.includeChangesets THEN @ ELSE <<>>]
    IN
    /\ response = NoResponse
    /\ response' =
          IF namespace # NAMESPACE THEN [base EXCEPT !.status = "namespaceMismatch"]
          ELSE IF id \notin DOMAIN vertexStorage
          THEN [base EXCEPT !.status = "getFailed", !.cause = "vertexNotFound",
                            !.calls = {"vertex.get"}]
          ELSE [base EXCEPT !.status = result.status,
                            !.options = options,
                            !.calls = {"vertex.get"},
                            !.vertex = result.vertex,
                            !.verified = result.verified,
                            !.verification = result.verification]
    /\ vertexStorage' =
          IF namespace = NAMESPACE /\ id \in DOMAIN vertexStorage
          THEN [vertexStorage EXCEPT ![id] = stripped]
          ELSE vertexStorage
    /\ UNCHANGED <<immutableStorage, immutableSeq, revoked, tampered,
                   enableIntegrityCheck, workload, pending, clock, lastRequest>>

Get(namespace, id, options) ==
    LET base == [NoResponse EXCEPT !.op = "get", !.namespace = namespace, !.id = id]
        result == GetResult(vertexStorage[id], options, immutableStorage, revoked)
    IN
    /\ response = NoResponse
    /\ response' =
          IF namespace # NAMESPACE THEN [base EXCEPT !.status = "namespaceMismatch"]
          ELSE IF id \notin DOMAIN vertexStorage
          THEN [base EXCEPT !.status = "getFailed", !.cause = "vertexNotFound",
                            !.calls = {"vertex.get"}]
          ELSE [base EXCEPT !.status = result.status,
                            !.options = options,
                            !.calls = {"vertex.get"},
                            !.vertex = result.vertex,
                            !.verified = result.verified,
                            !.verification = result.verification]
    /\ UNCHANGED <<vertexStorage, immutableStorage, immutableSeq, revoked, tampered,
                   enableIntegrityCheck, workload, pending, clock, lastRequest>>

\* the caller takes the response; the next call can start
Return ==
    /\ response # NoResponse
    /\ response' = NoResponse
    /\ UNCHANGED <<vertexStorage, immutableStorage, immutableSeq, revoked, tampered,
                   enableIntegrityCheck, workload, pending, clock, lastRequest>>

Next ==
    \/ \E request \in Requests(workload), now \in ClockReadings :
          Create(request, now)
    \/ \E urn \in Urns, request \in Requests(workload), now \in ClockReadings :
          Update(urn.namespace, urn.id, request, now)
    \/ \E urn \in Urns, nodeIdentity \in NodeIdentities :
          RemoveImmutable(urn.namespace, urn.id, nodeIdentity)
    \/ \E urn \in Urns, options \in GetOptions :
          Get(urn.namespace, urn.id, options)
    \/ Return

Spec == Init /\ [][Next]_vars

\* ------------------------------------------------------------------- query
\* String.prototype.includes on character sequences
Includes(text, needle) ==
    \E i \in 0..(Len(text) - Len(needle)) :
        \A k \in 1..Len(needle) : text[i + k] = needle[k]

\* the conditions with the needle as given for the alias index too
QueryConditions_CaseSensitive(needle, idMode) ==
    IF ~IsStringValue(needle) THEN <<>>
    ELSE LET mode == IF idMode = UNDEF THEN "both" ELSE idMode IN
         (IF mode \in {"id", "both"}
          THEN <<[property |-> "id", value |-> needle]>> ELSE <<>>)
         \o (IF mode \in {"alias", "both"}
             THEN <<[property |-> "aliasIndex", value |-> needle]>>
             ELSE <<>>)

\* The conditions query builds from options.id and options.idMode (UNDEF is the
\* idMode left out, which means "both"); no condition when there is no needle.
QueryConditions(needle, idMode) ==
    IF ~IsStringValue(needle) THEN <<>>
    ELSE LET mode == IF idMode = UNDEF THEN "both" ELSE idMode IN
         (IF mode \in {"id", "both"}
          THEN <<[property |-> "id", value |-> needle]>> ELSE <<>>)
         \o (IF mode \in {"alias", "both"}
             THEN <<[property |-> "aliasIndex", value |-> ToLowerCase(needle)]>>
             ELSE <<>>)

\* The entity storage's test of an entity against the conditions joined by
\* LogicalOperator.Or with ComparisonOperator.Includes; every entity passes
\* when no conditions are given.
Matches(entity, conditions) ==
    \/ Len(conditions) = 0
    \/ \E c \in DOMAIN conditions : Includes(entity[conditions[c].property],
                                              conditions[c].value)

RECURSIVE InsertByCreatedDesc(_, _)
\* stable insertion into a list ordered by created, latest first
InsertByCreatedDesc(sorted, entity) ==
    IF Len(sorted) = 0 THEN <<entity>>
    ELSE IF Head(sorted).created < entity.created THEN <<entity>> \o sorted
    ELSE <<Head(sorted)>> \o InsertByCreatedDesc(Tail(sorted), entity)

RECURSIVE SortByCreatedDesc(_, _)
\* the entities of the given ids, the n-th created vertex taken n-th
SortByCreatedDesc(storage, n) ==
    IF n > Len(VertexIdSeq) \/ VertexIdSeq[n] \notin DOMAIN storage THEN <<>>
    ELSE LET rest == SortByCreatedDesc(storage, n + 1)
         IN InsertByCreatedDesc(rest, storage[VertexIdSeq[n]])

\* the model of one returned entity under the default properties
\* ["id", "created", "aliases", "metadata"]: vertexEntityToModel of the projection
QueryEntityToModel(entity) ==
    [id |-> entity.id, created |-> entity.created, metadata |-> entity.metadata,
     aliases |-> [i \in DOMAIN entity.aliases |-> AliasEntityToModel(entity.aliases[i])]]

\* query with the default order (created, descending), the default properties,
\* no cursor and a page that holds every stored vertex
QueryResult(storage, needle, idMode) ==
    LET conditions == QueryConditions(needle, idMode)
        ordered == SortByCreatedDesc(storage, 1)
        found == SelectSeq(ordered, LAMBDA e : Matches(e, conditions))
    IN [i \in DOMAIN found |-> QueryEntityToModel(found[i])]

Query(needle, idMode) ==
    /\ response = NoResponse
    /\ response' = [NoResponse EXCEPT
                       !.op = "query",
                       !.query = <<[id |-> needle, idMode |-> idMode]>>,
                       !.calls = {"vertex.query"},
                       !.entities = QueryResult(vertexStorage, needle, idMode)]
    /\ UNCHANGED <<vertexStorage, immutableStorage, immutableSeq, revoked, tampered,
                   enableIntegrityCheck, workload, pending, clock, lastRequest>>

\* the needles and modes the callers of query use ("" is no needle)
Needles == {<<>>, <<"4">>, <<"B">>, <<"a">>, <<"4", "b">>}
IdModes == {UNDEF, "id", "alias", "both"}

InitQuery ==
    /\ Init
    /\ workload = "query"

NextQuery ==
    \/ Next
    \/ \E needle \in Needles, idMode \in IdModes : Query(needle, idMode)

SpecQuery == InitQuery /\ [][NextQuery]_vars

\* ------------------------------------------------- out-of-band environment
\* Somebody with access to the vertex storage alters a stored changeset and
\* leaves its hash as it is.
TamperChangeset(id, i, field) ==
    LET changeset == vertexStorage[id].changesets[i]
        altered ==
            CASE field = "patches" ->
                    [changeset EXCEPT !.patches =
                        Append(@, PatchOp("add", "/metadata", TextValue("forged")))]
              [] field = "created" -> [changeset EXCEPT !.created = @ + 1]
              [] field = "userIdentity" -> [changeset EXCEPT !.userIdentity = "did:mallory"]
    IN
    /\ response = NoResponse
    /\ Cardinality(tampered) + Cardinality(revoked) < MaxOutOfBand
    /\ id \in DOMAIN vertexStorage
    /\ i \in DOMAIN vertexStorage[id].changesets
    /\ vertexStorage' = [vertexStorage EXCEPT ![id].changesets[i] = altered]
    /\ tampered' = tampered \cup {[kind |-> "changeset", id |-> id, index |-> i,
                                  length |-> Len(vertexStorage[id].changesets)]}
    /\ UNCHANGED <<immutableStorage, immutableSeq, revoked, enableIntegrityCheck,
                   workload, pending, clock, lastRequest, response>>

\* Somebody alters the current content of a stored vertex and leaves its
\* changesets as they are.
TamperContent(id, field) ==
    LET vertex == vertexStorage[id]
        altered ==
            CASE field = "metadata" -> [vertex EXCEPT !.metadata = "forged"]
              [] field = "aliases" -> [vertex EXCEPT !.aliases[1].metadata = "forged"]
              [] field = "resources" -> [vertex EXCEPT !.resources[1].metadata = "forged"]
              [] field = "edges" -> [vertex EXCEPT !.edges[1].relationship = "forged"]
    IN
    /\ response = NoResponse
    /\ Cardinality(tampered) + Cardinality(revoked) < MaxOutOfBand
    /\ id \in DOMAIN vertexStorage
    /\ field \in {"aliases", "resources", "edges"} => IsArrayValue(vertex[field])
    /\ vertexStorage' = [vertexStorage EXCEPT ![id] = altered]
    /\ tampered' = tampered \cup {[kind |-> "content", id |-> id, index |-> 0,
                                  length |-> Len(vertexStorage[id].changesets)]}
    /\ UNCHANGED <<immutableStorage, immutableSeq, revoked, enableIntegrityCheck,
                   workload, pending, clock, lastRequest, response>>

\* Somebody replaces the stored hash of a changeset and leaves the rest of
\* the changeset as it is.
TamperHash(id, i) ==
    /\ response = NoResponse
    /\ Cardinality(tampered) + Cardinality(revoked) < MaxOutOfBand
    /\ id \in DOMAIN vertexStorage
    /\ i \in DOMAIN vertexStorage[id].changesets
    /\ vertexStorage' = [vertexStorage EXCEPT ![id].changesets[i].hash =
                             bytesToBase64(Blake2b(<<"forged">>))]
    /\ tampered' = tampered \cup {[kind |-> "hash", id |-> id, index |-> i,
                                  length |-> Len(vertexStorage[id].changesets)]}
    /\ UNCHANGED <<immutableStorage, immutableSeq, revoked, enableIntegrityCheck,
                   workload, pending, clock, lastRequest, response>>

\* The issuer revokes a credential it has issued.
Revoke(sid) ==
    /\ response = NoResponse
    /\ sid \in DOMAIN immutableStorage
    /\ sid \notin revoked
    /\ Cardinality(tampered) + Cardinality(revoked) < MaxOutOfBand
    /\ revoked' = revoked \cup {sid}
    /\ UNCHANGED <<vertexStorage, immutableStorage, immutableSeq, tampered,
                   enableIntegrityCheck, workload, pending, clock, lastRequest, response>>

OutOfBand ==
    \/ \E id \in VertexIds, i \in 1..MaxChangesets,
          field \in {"patches", "created", "userIdentity"} :
          TamperChangeset(id, i, field)
    \/ \E id \in VertexIds, field \in {"metadata", "aliases", "resources", "edges"} :
          TamperContent(id, field)
    \/ \E id \in VertexIds, i \in 1..MaxChangesets : TamperHash(id, i)
    \/ \E sid \in 1..MaxChangesets : Revoke(sid)

InitOutOfBand ==
    /\ Init
    /\ workload = "audit"

SpecOutOfBand == InitOutOfBand /\ [][Next \/ OutOfBand]_vars

\* the same environment with callers of two nodes and two users
InitForeign ==
    /\ Init
    /\ workload = "identities"

SpecForeign == InitForeign /\ [][Next \/ OutOfBand]_vars

\* ------------------------------------------------- failing collaborators
\* the order in which a mutation calls its collaborators
CallOrder ==
    <<"vertex.get", "vault.sign", "vault.encrypt",
      "identity.createVerifiableCredential", "immutable.store",
      "immutable.remove", "vertex.set">>

CollaboratorCalls == {CallOrder[i] : i \in DOMAIN CallOrder}

CallRank(call) == CHOOSE i \in DOMAIN CallOrder : CallOrder[i] = call

\* the calls of a mutation that were started when the call named fault threw
CallsUpTo(fault, calls) == {c \in calls : CallRank(c) <= CallRank(fault)}

\* the credentials in the immutable storage that no stored changeset names
Orphans == immutableSeq - TotalChangesets

\* create when the collaborator call named fault throws: the catch block wraps
\* the error in createFailed; a credential stored before the throw stays stored
CreateFails(request, now, fault) ==
    LET id == NextVertexId
        context == [now |-> now, userIdentity |-> request.userIdentity,
                    nodeIdentity |-> request.nodeIdentity]
        originalModel ==
            [id |-> id, nodeIdentity |-> request.nodeIdentity,
             created |-> now, updated |-> now,
             metadataSchema |-> UNDEF, metadata |-> UNDEF,
             aliases |-> <<>>, resources |-> <<>>, edges |-> <<>>, changesets |-> <<>>]
        vertexModel == ApplyRequest(now, originalModel, request)
        storageId == immutableSeq + 1
        added == addChangeset(context, originalModel, vertexModel,
                              enableIntegrityCheck, storageId)
        calls == AddChangesetCalls(enableIntegrityCheck) \cup {"vertex.set"}
    IN
    /\ response = NoResponse
    /\ Cardinality(DOMAIN vertexStorage) < VertexLimit
    /\ request.userIdentity # "" /\ request.nodeIdentity # ""
    /\ GuardRequest(request)
    /\ fault \in calls
    /\ clock' = now
    /\ IF fault = "vertex.set"
       THEN /\ Orphans < MaxOrphans
            /\ immutableStorage' = Put(immutableStorage, storageId, added.credential[1])
            /\ immutableSeq' = storageId
       ELSE UNCHANGED <<immutableStorage, immutableSeq>>
    /\ response' = [NoResponse EXCEPT !.op = "create", !.id = id,
                                      !.status = "createFailed",
                                      !.calls = CallsUpTo(fault, calls)]
    /\ UNCHANGED <<vertexStorage, lastRequest, revoked, tampered,
                   enableIntegrityCheck, workload, pending>>

\* update when the collaborator call named fault throws
UpdateFails(namespace, id, request, now, fault) ==
    LET context == [now |-> now, userIdentity |-> request.userIdentity,
                    nodeIdentity |-> request.nodeIdentity]
        originalModel == vertexEntityToModel(vertexStorage[id])
        vertexModel == ApplyRequest(now, originalModel, request)
        storageId == immutableSeq + 1
        added == addChangeset(context, originalModel, vertexModel,
                              enableIntegrityCheck, storageId)
        calls == {"vertex.get"} \cup AddChangesetCalls(enableIntegrityCheck)
                 \cup {"vertex.set"}
        base == [NoResponse EXCEPT !.op = "update", !.id = id,
                                   !.status = "updateFailed",
                                   !.calls = CallsUpTo(fault, calls)]
    IN
    /\ response = NoResponse
    /\ request.userIdentity # "" /\ request.nodeIdentity # ""
    /\ namespace = NAMESPACE
    /\ fault \in calls
    /\ IF fault = "vertex.get"
       THEN /\ response' = base
            /\ UNCHANGED <<immutableStorage, immutableSeq, clock>>
       ELSE /\ id \in DOMAIN vertexStorage
            /\ GuardRequest(request)
            /\ added.changes
            /\ clock' = now
            /\ response' = base
            /\ IF fault = "vertex.set"
               THEN /\ Orphans < MaxOrphans
                    /\ immutableStorage' =
                          Put(immutableStorage, storageId, added.credential[1])
                    /\ immutableSeq' = storageId
               ELSE UNCHANGED <<immutableStorage, immutableSeq>>
    /\ UNCHANGED <<vertexStorage, lastRequest, revoked, tampered,
                   enableIntegrityCheck, workload, pending>>

\* removeImmutable changing the stored entity as the loop goes, so that the
\* ids cleared before a throw stay cleared
RemoveImmutableFails_InPlace(namespace, id, nodeIdentity, fault, k) ==
    LET changesets == IF id \in DOMAIN vertexStorage
                      THEN vertexStorage[id].changesets ELSE <<>>
        upTo == IF fault = "immutable.remove" /\ k <= Len(changesets)
                THEN k - 1 ELSE Len(changesets)
        done == RemoveImmutableLoop(SubSeq(changesets, 1, upTo), 1,
                    [failed |-> FALSE, storage |-> immutableStorage,
                     changesets |-> changesets, hasChanged |-> FALSE])
    IN
    /\ response = NoResponse
    /\ nodeIdentity # ""
    /\ namespace = NAMESPACE
    /\ fault \in {"immutable.remove", "vertex.set"}
    /\ id \in DOMAIN vertexStorage
    /\ ~done.failed
    /\ fault = "immutable.remove" =>
          /\ k \in DOMAIN changesets
          /\ changesets[k].immutableStorageId \in DOMAIN done.storage
    /\ fault = "vertex.set" => done.hasChanged
    /\ immutableStorage' = done.storage
    /\ vertexStorage' = [vertexStorage EXCEPT ![id].changesets = done.changesets]
    /\ response' = [NoResponse EXCEPT !.op = "removeImmutable", !.id = id,
                       !.status = "removeImmutableFailed",
                       !.calls = CallsUpTo(fault,
                                    {"vertex.get", "immutable.remove", "vertex.set"})]
    /\ UNCHANGED <<immutableSeq, revoked, tampered, enableIntegrityCheck, workload, pending,
                   clock, lastRequest>>

\* removeImmutable when the collaborator call named fault throws; a remove
\* throws at the k-th changeset, after the credentials of the changesets before
\* it have been removed.  The loaded entity is the caller's own copy: the ids
\* cleared on it reach the store with the final set only.
RemoveImmutableFails(namespace, id, nodeIdentity, fault, k) ==
    LET changesets == IF id \in DOMAIN vertexStorage
                      THEN vertexStorage[id].changesets ELSE <<>>
        upTo == IF fault = "immutable.remove" /\ k <= Len(changesets)
                THEN k - 1 ELSE Len(changesets)
        done == RemoveImmutableLoop(SubSeq(changesets, 1, upTo), 1,
                    [failed |-> FALSE, storage |-> immutableStorage,
                     changesets |-> changesets, hasChanged |-> FALSE])
        base == [NoResponse EXCEPT !.op = "removeImmutable", !.id = id,
                    !.status = "removeImmutableFailed",
                    !.calls = CallsUpTo(fault,
                                 {"vertex.get", "immutable.remove", "vertex.set"})]
    IN
    /\ response = NoResponse
    /\ nodeIdentity # ""
    /\ namespace = NAMESPACE
    /\ fault \in {"vertex.get", "immutable.remove", "vertex.set"}
    /\ IF fault = "vertex.get"
       THEN /\ response' = base
            /\ UNCHANGED immutableStorage
       ELSE /\ id \in DOMAIN vertexStorage
            /\ ~done.failed
            /\ fault = "immutable.remove" =>
                  /\ k \in DOMAIN changesets
                  /\ changesets[k].immutableStorageId \in DOMAIN done.storage
            /\ fault = "vertex.set" => done.hasChanged
            /\ immutableStorage' = done.storage
            /\ response' = base
    /\ UNCHANGED <<vertexStorage, immutableSeq, revoked, tampered,
                   enableIntegrityCheck, workload, pending, clock, lastRequest>>

Faults ==
    \/ \E request \in Requests(workload), now \in ClockReadings,
          fault \in CollaboratorCalls :
          CreateFails(request, now, fault)
    \/ \E urn \in Urns, request \in Requests(workload), now \in ClockReadings,
          fault \in CollaboratorCalls :
          UpdateFails(urn.namespace, urn.id, request, now, fault)
    \/ \E urn \in Urns, nodeIdentity \in NodeIdentities,
          fault \in CollaboratorCalls, k \in 1..MaxChangesets :
          RemoveImmutableFails(urn.namespace, urn.id, nodeIdentity, fault, k)

InitFaults ==
    /\ Init
    /\ workload = "audit"

SpecFaults == InitFaults /\ [][Next \/ Faults]_vars

\* create and update of callers with different identities when the final set
\* can throw
NextOrphan ==
    \/ \E request \in Requests(workload), now \in ClockReadings :
          Create(request, now)
    \/ \E urn \in Urns, request \in Requests(workload), now \in ClockReadings :
          Update(urn.namespace, urn.id, request, now)
    \/ \E request \in Requests(workload), now \in ClockReadings :
          CreateFails(request, now, "vertex.set")
    \/ \E urn \in Urns, request \in Requests(workload), now \in ClockReadings :
          UpdateFails(urn.namespace, urn.id, request, now, "vertex.set")
    \/ Return

InitOrphan ==
    /\ Init
    /\ workload = "identities"

SpecOrphan == InitOrphan /\ [][NextOrphan]_vars

\* ------------------------------------------------------- concurrent updates
\* Two callers run update at the same time.  Each await of update is a step:
\* the get of the vertex (followed, without an await, by Date.now, the
\* reconcilers, the diff and the digest), the calls of addChangeset up to the
\* immutable store, and the final set.
\* what the update of writer p computes from the entity it loaded:
\* [changes, entity, credential]
WriterUpdate(p, storageId) ==
    LET request == p.request[1]
        context == [now |-> p.now, userIdentity |-> request.userIdentity,
                    nodeIdentity |-> request.nodeIdentity]
        originalModel == vertexEntityToModel(p.base[1])
        vertexModel == ApplyRequest(p.now, originalModel, request)
        added == addChangeset(context, originalModel, vertexModel,
                              enableIntegrityCheck, storageId)
        stored == [vertexModel EXCEPT !.changesets = added.changesets,
                                      !.updated = p.now]
    IN [changes |-> added.changes,
        entity |-> vertexModelToEntity(stored),
        credential |-> added.credential]

\* update up to the await of the first call of addChangeset
UpdateLoad(w, namespace, id, request, now) ==
    LET loaded == [Idle EXCEPT !.phase = "loaded", !.id = id, !.request = <<request>>,
                               !.now = now, !.base = <<vertexStorage[id]>>]
    IN
    /\ pending[w].phase = "idle"
    /\ request.userIdentity # "" /\ request.nodeIdentity # ""
    /\ namespace = NAMESPACE
    /\ id \in DOMAIN vertexStorage
    /\ GuardRequest(request)
    /\ Len(vertexStorage[id].changesets) < MaxChangesets
    /\ WriterUpdate(loaded, NoStorageId).changes
    /\ clock' = now
    /\ pending' = [pending EXCEPT ![w] = loaded]
    /\ UNCHANGED <<vertexStorage, immutableStorage, immutableSeq, revoked, tampered,
                   enableIntegrityCheck, workload, lastRequest, response>>

\* addChangeset of an update in flight: sign, encrypt, create the credential
\* and store it immutably
UpdateAnchor(w) ==
    LET storageId == immutableSeq + 1
        update == WriterUpdate(pending[w], storageId)
    IN
    /\ pending[w].phase = "loaded"
    /\ immutableStorage' = Put(immutableStorage, storageId, update.credential[1])
    /\ immutableSeq' = storageId
    /\ pending' = [pending EXCEPT ![w].phase = "anchored", ![w].storageId = storageId]
    /\ UNCHANGED <<vertexStorage, revoked, tampered, enableIntegrityCheck, workload,
                   clock, lastRequest, response>>

\* the final set of an update in flight; the update returns
UpdatePersist(w) ==
    LET update == WriterUpdate(pending[w], pending[w].storageId)
    IN
    /\ pending[w].phase = "anchored"
    /\ vertexStorage' = Put(vertexStorage, pending[w].id, update.entity)
    /\ lastRequest' = Put(lastRequest, pending[w].id, pending[w].request[1])
    /\ pending' = [pending EXCEPT
          ![w].phase = "done",
          ![w].order = 1 + Cardinality({v \in DOMAIN pending : pending[v].phase = "done"})]
    /\ UNCHANGED <<immutableStorage, immutableSeq, revoked, tampered,
                   enableIntegrityCheck, workload, clock, response>>

\* the callers take the results of their updates once no update is in flight
Settle ==
    /\ \A w \in Writers : pending[w].phase \in {"idle", "done"}
    /\ \E w \in Writers : pending[w].phase = "done"
    /\ pending' = [w \in Writers |-> Idle]
    /\ UNCHANGED <<vertexStorage, immutableStorage, immutableSeq, revoked, tampered,
                   enableIntegrityCheck, workload, clock, lastRequest, response>>

NextRace ==
    \/ \E request \in Requests(workload), now \in ClockReadings :
          Create(request, now)
    \/ \E w \in Writers, urn \in Urns, request \in Requests(workload),
          now \in ClockReadings :
          UpdateLoad(w, urn.namespace, urn.id, request, now)
    \/ \E w \in Writers : UpdateAnchor(w)
    \/ \E w \in Writers : UpdatePersist(w)
    \/ Settle

InitRace ==
    /\ Init
    /\ workload = "identities"

SpecRace == InitRace /\ [][NextRace]_vars

\* --------------------------------- update and removeImmutable concurrently
\* removeImmutable run by a caller while other calls are in flight.  Each
\* await is a step: the get of the vertex, every remove of a credential and
\* the final set.  base holds the entity the call loaded, on which it clears
\* the ids it has removed.
\* the index of the first changeset of an entity that still carries an id, 0 if none
NextToRemove(entity) ==
    LET named == {i \in DOMAIN entity.changesets :
                     entity.changesets[i].immutableStorageId # NoStorageId}
    IN IF named = {} THEN 0 ELSE CHOOSE i \in named : \A j \in named : i <= j

\* removeImmutable up to the await of the first remove; without an id to
\* remove it returns after the get
RemoveLoad(w, namespace, id, nodeIdentity) ==
    /\ pending[w].phase = "idle"
    /\ nodeIdentity # ""
    /\ namespace = NAMESPACE
    /\ id \in DOMAIN vertexStorage
    /\ pending' = [pending EXCEPT ![w] =
          [Idle EXCEPT !.phase = IF NextToRemove(vertexStorage[id]) = 0
                                 THEN "done" ELSE "removeLoaded",
                       !.id = id, !.base = <<vertexStorage[id]>>]]
    /\ UNCHANGED <<vertexStorage, immutableStorage, immutableSeq, revoked, tampered,
                   enableIntegrityCheck, workload, clock, lastRequest, response>>

\* one pass of the loop of a removeImmutable in flight: the remove of the next
\* credential, which throws for an id the immutable storage does not hold
RemoveNext(w) ==
    LET entity == pending[w].base[1]
        i == NextToRemove(entity)
        sid == entity.changesets[i].immutableStorageId
    IN
    /\ pending[w].phase \in {"removeLoaded", "removing"}
    /\ i # 0
    /\ IF sid \in DOMAIN immutableStorage
       THEN /\ immutableStorage' =
                  [x \in DOMAIN immutableStorage \ {sid} |-> immutableStorage[x]]
            /\ pending' = [pending EXCEPT
                  ![w].phase = "removing",
                  ![w].base = <<[entity EXCEPT
                                   !.changesets[i].immutableStorageId = NoStorageId]>>]
       ELSE /\ pending' = [pending EXCEPT ![w].phase = "done"]
            /\ UNCHANGED immutableStorage
    /\ UNCHANGED <<vertexStorage, immutableSeq, revoked, tampered,
                   enableIntegrityCheck, workload, clock, lastRequest, response>>

\* the final set of a removeImmutable in flight; the call returns
RemovePersist(w) ==
    /\ pending[w].phase = "removing"
    /\ NextToRemove(pending[w].base[1]) = 0
    /\ vertexStorage' = Put(vertexStorage, pending[w].id, pending[w].base[1])
    /\ pending' = [pending EXCEPT
          ![w].phase = "done",
          ![w].order = 1 + Cardinality({v \in DOMAIN pending : pending[v].phase = "done"})]
    /\ UNCHANGED <<immutableStorage, immutableSeq, revoked, tampered,
                   enableIntegrityCheck, workload, clock, lastRequest, response>>

NextRemovalRace ==
    \/ \E request \in Requests(workload), now \in ClockReadings :
          Create(request, now)
    \/ \E w \in Writers, urn \in Urns, request \in Requests(workload),
          now \in ClockReadings :
          UpdateLoad(w, urn.namespace, urn.id, request, now)
    \/ \E w \in Writers : UpdateAnchor(w)
    \/ \E w \in Writers : UpdatePersist(w)
    \/ \E w \in Writers, urn \in Urns, nodeIdentity \in NodeIdentities :
          RemoveLoad(w, urn.namespace, urn.id, nodeIdentity)
    \/ \E w \in Writers : RemoveNext(w)
    \/ \E w \in Writers : RemovePersist(w)
    \/ Settle

InitRemovalRace ==
    /\ Init
    /\ workload = "audit"

SpecRemovalRace == InitRemovalRace /\ [][NextRemovalRace]_vars

\* ==================================================================== claims
Collections == {"aliases", "resources", "edges"}

\* the ids of the elements of a stored collection that carry no deleted stamp
LiveIds(list) == {list[i].id : i \in {j \in DOMAIN list : list[j].deleted = NoStamp}}

\* the ids a caller's list names
InputIds(input) == {input.items[j].id : j \in DOMAIN input.items}

\* the stored collection of a vertex, empty while the vertex is not stored
StoredCollection(storage, id, c) ==
    IF id \in DOMAIN storage THEN storage[id][c] ELSE <<>>

\* this step is a create or update that returns without an error; then
\* lastRequest' holds its arguments and clock' the time it read
SuccessfulMutation ==
    /\ response = NoResponse
    /\ response'.op \in {"create", "update"}
    /\ response'.status = "ok"

\* a get of a stored vertex has just returned without an error
GetReturned ==
    /\ response.op = "get"
    /\ response.status = "ok"
    /\ response.id \in DOMAIN vertexStorage

\* C1: when the patches, created or userIdentity of a stored changeset have
\* been altered out-of-band, a get with verifySignatureDepth current or all
\* returns one verification entry per changeset, the entry of the altered
\* changeset carries the failure invalidChangesetHash, and verified is false.
C1_AlteredChangesetIsUnverified ==
    \A t \in tampered :
        (/\ t.kind = "changeset"
         /\ GetReturned
         /\ response.id = t.id
         /\ response.options.verifySignatureDepth \in {"current", "all"})
        => /\ Len(response.verification) = Len(vertexStorage[t.id].changesets)
           /\ response.verification[t.index].failure = "invalidChangesetHash"
           /\ response.verified = <<FALSE>>

\* C2: an update whose metadataSchema, metadata, aliases, resources and edges
\* equal those of the preceding successful create or update of the vertex
\* appends no changeset, leaves the updated stamp, does not call the vertex
\* store's set and stores no credential.
C2_RepeatedUpdateIsNoOp ==
    [][(/\ SuccessfulMutation
        /\ response'.op = "update"
        /\ response'.id \in DOMAIN lastRequest
        /\ \A f \in {"metadataSchema", "metadata", "aliases", "resources", "edges"} :
              lastRequest'[response'.id][f] = lastRequest[response'.id][f])
       => /\ Len(vertexStorage'[response'.id].changesets)
                = Len(vertexStorage[response'.id].changesets)
          /\ vertexStorage'[response'.id].updated = vertexStorage[response'.id].updated
          /\ "vertex.set" \notin response'.calls
          /\ immutableStorage' = immutableStorage]_vars

\* C3: a create or update called without a list leaves the collection as it
\* is (no live element gets a deleted stamp, no element is added); called with
\* the empty list it stamps every live element deleted = now.
C3_AbsentListLeavesCollection ==
    [][SuccessfulMutation =>
        \A c \in Collections :
            LET id == response'.id
                input == lastRequest'[id][c]
                before == StoredCollection(vertexStorage, id, c)
                after == vertexStorage'[id][c]
            IN /\ ~input.present =>
                    /\ Len(after) = Len(before)
                    /\ \A i \in DOMAIN before :
                          before[i].deleted = NoStamp => after[i].deleted = NoStamp
               /\ (input.present /\ Len(input.items) = 0) =>
                    /\ Len(after) = Len(before)
                    /\ \A i \in DOMAIN before :
                          before[i].deleted = NoStamp => after[i].deleted = clock']_vars

\* C4: when the content of a stored vertex has been altered out-of-band and
\* its changesets have not, a get with verifySignatureDepth all returns
\* verified = false.
C4_AlteredContentIsUnverified ==
    \A t \in tampered :
        (/\ t.kind = "content"
         /\ GetReturned
         /\ response.id = t.id
         /\ response.options.verifySignatureDepth = "all")
        => response.verified = <<FALSE>>

\* C5: every stored changeset's hash is the digest of the stored hash of the
\* changeset before it (nothing for the first one), its created stamp, its
\* userIdentity and its patches.
C5_HashChain ==
    \A id \in DOMAIN vertexStorage :
        LET changesets == vertexStorage[id].changesets IN
        \A i \in DOMAIN changesets :
            changesets[i].hash = bytesToBase64(Blake2b(
                (IF i = 1 THEN <<>> ELSE <<base64ToBytes(changesets[i - 1].hash)>>)
                \o <<EpochBytes(changesets[i].created), changesets[i].userIdentity,
                     PatchBytes(changesets[i].patches)>>))

\* a removeImmutable has returned for a vertex that has a chain of changesets
C5_Witness ==
    /\ response.op = "removeImmutable"
    /\ response.status = "ok"
    /\ "vertex.set" \in response.calls
    /\ Len(vertexStorage[response.id].changesets) >= 3

\* C6: with nothing altered out-of-band and no credential revoked, a get with
\* verifySignatureDepth all of a vertex that create and update calls have
\* written returns verified = true and no entry with a failure.
C6_UntouchedVertexVerifies ==
    (/\ GetReturned
     /\ response.options.verifySignatureDepth = "all"
     /\ \A i \in DOMAIN vertexStorage[response.id].changesets :
           vertexStorage[response.id].changesets[i].immutableStorageId # NoStorageId)
    => /\ response.verified = <<TRUE>>
       /\ \A i \in DOMAIN response.verification :
             response.verification[i].failure = UNDEF

\* C7: after a successful create or update called with the list L for a
\* collection, the ids of its live elements are the ids of L, every element
\* that was live and is not named by L has deleted = now, and every id of L
\* that had no live element has a new element appended with created = now.
C7_ListIsReconciled ==
    [][SuccessfulMutation =>
        \A c \in Collections :
            LET id == response'.id
                input == lastRequest'[id][c]
                before == StoredCollection(vertexStorage, id, c)
                after == vertexStorage'[id][c]
            IN input.present =>
                /\ LiveIds(after) = InputIds(input)
                /\ \A i \in DOMAIN before :
                      (before[i].deleted = NoStamp /\ before[i].id \notin InputIds(input))
                      => /\ i \in DOMAIN after
                         /\ after[i].id = before[i].id
                         /\ after[i].deleted = clock'
                /\ \A x \in InputIds(input) \ LiveIds(before) :
                      \E j \in (Len(before) + 1)..Len(after) :
                          /\ after[j].id = x
                          /\ after[j].created = clock'
                          /\ after[j].deleted = NoStamp]_vars

\* an update has stamped one alias deleted and appended another in one call
C7_Witness ==
    /\ response.op = "update"
    /\ response.status = "ok"
    /\ "vertex.set" \in response.calls
    /\ lastRequest[response.id].aliases.present
    /\ \E i, j \in DOMAIN vertexStorage[response.id].aliases :
          LET aliases == vertexStorage[response.id].aliases IN
          /\ aliases[i].deleted = clock
          /\ aliases[j].created = clock
          /\ aliases[j].deleted = NoStamp
          /\ aliases[i].created < clock

\* C8: an element with a deleted stamp stays where it is in the stored
\* collection with its id, created and deleted values, whatever is called
\* later, and an update that names its id appends a new element with created =
\* the time of that update.
C8_TombstonesStay ==
    [][\A id \in DOMAIN vertexStorage, c \in Collections :
          LET before == vertexStorage[id][c]
              after == StoredCollection(vertexStorage', id, c)
          IN /\ \A i \in DOMAIN before :
                   before[i].deleted # NoStamp
                   => /\ i \in DOMAIN after
                      /\ after[i].id = before[i].id
                      /\ after[i].created = before[i].created
                      /\ after[i].deleted = before[i].deleted
             /\ (/\ SuccessfulMutation
                 /\ response'.op = "update"
                 /\ response'.id = id
                 /\ lastRequest'[id][c].present)
                => \A i \in DOMAIN before :
                      (/\ before[i].deleted # NoStamp
                       /\ before[i].id \in InputIds(lastRequest'[id][c]))
                      => \E j \in (Len(before) + 1)..Len(after) :
                             /\ after[j].id = before[i].id
                             /\ after[j].created = clock'
                             /\ after[j].deleted = NoStamp]_vars

\* an update has named the id of a tombstone: the tombstone is followed by a
\* live element with that id, created at the time of the update
C8_Witness ==
    /\ response.op = "update"
    /\ response.status = "ok"
    /\ "vertex.set" \in response.calls
    /\ \E c \in Collections :
          LET list == vertexStorage[response.id][c] IN
          \E i, j \in DOMAIN list :
              /\ i < j
              /\ list[i].id = list[j].id
              /\ list[i].deleted # NoStamp
              /\ list[i].deleted < clock
              /\ list[j].deleted = NoStamp
              /\ list[j].created = clock

C10_SameElements(returned, stored) ==
    /\ Len(returned) = Len(stored)
    /\ \A i \in DOMAIN stored :
          \A f \in DOMAIN stored[i] : returned[i][f] = stored[i][f]

\* C10: a get without includeDeleted returns in each collection the stored
\* elements without a deleted stamp, in stored order, and returns no collection
\* that has no such element; a get with includeDeleted returns every stored
\* element.
C10_GetFiltersDeleted ==
    GetReturned =>
        \A c \in Collections :
            LET stored == vertexStorage[response.id][c]
                live == SelectSeq(stored, LAMBDA x : x.deleted = NoStamp)
                vertex == response.vertex[1]
            IN IF response.options.includeDeleted
               THEN /\ C10_SameElements(vertex[c], stored)
                    /\ c \in vertex.keys <=> Len(stored) > 0
               ELSE /\ C10_SameElements(vertex[c], live)
                    /\ c \in vertex.keys <=> Len(live) > 0

\* a get without includeDeleted has returned a vertex that has a collection
\* with a tombstone and a live element and a collection with tombstones only
C10_Witness ==
    /\ GetReturned
    /\ ~response.options.includeDeleted
    /\ \E c \in Collections :
          LET stored == vertexStorage[response.id][c] IN
          /\ \E i \in DOMAIN stored : stored[i].deleted # NoStamp
          /\ \E i \in DOMAIN stored : stored[i].deleted = NoStamp
    /\ \E c \in Collections :
          LET stored == vertexStorage[response.id][c] IN
          /\ Len(stored) > 0
          /\ \A i \in DOMAIN stored : stored[i].deleted # NoStamp

\* the fields of a changeset that identify what was recorded
ChangesetContent == {"created", "userIdentity", "patches", "hash"}

\* C11: the changesets of a stored vertex are append-only: no step removes,
\* reorders or changes the created, userIdentity, patches or hash of a stored
\* changeset, a step adds at most one changeset, at the end, and an update that
\* changes the stored vertex adds exactly one.
C11_ChangesetsAppendOnly ==
    [][\A id \in DOMAIN vertexStorage :
          LET before == vertexStorage[id].changesets
              after == StoredCollection(vertexStorage', id, "changesets")
          IN /\ Len(after) \in {Len(before), Len(before) + 1}
             /\ \A i \in DOMAIN before :
                   \A f \in ChangesetContent : after[i][f] = before[i][f]
             /\ (/\ SuccessfulMutation
                 /\ response'.op = "update"
                 /\ response'.id = id
                 /\ vertexStorage'[id] # vertexStorage[id])
                => Len(after) = Len(before) + 1
             /\ Len(after) = Len(before) + 1
                => /\ SuccessfulMutation
                   /\ response'.op = "update"
                   /\ response'.id = id]_vars

\* an update has appended a changeset to a vertex whose credentials a
\* removeImmutable had removed before
C11_Witness ==
    /\ response.op = "update"
    /\ response.status = "ok"
    /\ "vertex.set" \in response.calls
    /\ LET changesets == vertexStorage[response.id].changesets IN
       /\ Len(changesets) >= 3
       /\ changesets[1].immutableStorageId = NoStorageId
       /\ changesets[Len(changesets)].immutableStorageId # NoStorageId

\* C12: within a vertex the created stamps of the changesets are strictly
\* increasing with the index.
C12_CreatedStrictlyIncreasing ==
    \A id \in DOMAIN vertexStorage :
        LET changesets == vertexStorage[id].changesets IN
        \A i, j \in DOMAIN changesets :
            i < j => changesets[i].created < changesets[j].created

\* C13: a successful create stores a new vertex with exactly one changeset,
\* whose patches are empty when no metadata and no elements are given, stores
\* exactly one credential and records its id in that changeset.
C13_CreateAnchorsOneChangeset ==
    [][(SuccessfulMutation /\ response'.op = "create") =>
        LET id == response'.id
            vertex == vertexStorage'[id]
            request == lastRequest'[id]
            sid == vertex.changesets[1].immutableStorageId
        IN /\ id \notin DOMAIN vertexStorage
           /\ Len(vertex.changesets) = 1
           /\ (/\ request.metadataSchema = UNDEF
               /\ request.metadata = UNDEF
               /\ \A c \in Collections : Len(request[c].items) = 0)
              => vertex.changesets[1].patches = <<>>
           /\ sid # NoStorageId
           /\ sid \notin DOMAIN immutableStorage
           /\ DOMAIN immutableStorage' = DOMAIN immutableStorage \cup {sid}]_vars

\* a create without metadata and elements has returned
C13_Witness ==
    /\ response.op = "create"
    /\ response.status = "ok"
    /\ lastRequest[response.id].metadata = UNDEF
    /\ \A c \in Collections : ~lastRequest[response.id][c].present
    /\ vertexStorage[response.id].changesets[1].patches = <<>>
    /\ vertexStorage[response.id].changesets[1].immutableStorageId
           \in DOMAIN immutableStorage

\* C14: after a successful removeImmutable no changeset of the vertex has an
\* immutableStorageId, the credentials the ids referred to are gone from the
\* immutable log, everything else of the vertex is as before, and a get with
\* verifySignatureDepth all returns verified = true and one entry per changeset.
C14_RemoveImmutableClearsIds ==
    [][(/\ response = NoResponse
        /\ response'.op = "removeImmutable"
        /\ response'.status = "ok") =>
        LET id == response'.id
            before == vertexStorage[id]
            after == vertexStorage'[id]
            got == GetResult(after, DefaultOptions, immutableStorage', revoked)
        IN /\ \A i \in DOMAIN after.changesets :
                 after.changesets[i].immutableStorageId = NoStorageId
           /\ \A i \in DOMAIN before.changesets :
                 before.changesets[i].immutableStorageId \notin DOMAIN immutableStorage'
           /\ \A f \in DOMAIN before \ {"changesets"} : after[f] = before[f]
           /\ Len(after.changesets) = Len(before.changesets)
           /\ \A i \in DOMAIN before.changesets :
                 \A f \in ChangesetContent :
                     after.changesets[i][f] = before.changesets[i][f]
           /\ got.status = "ok"
           /\ got.verified = <<TRUE>>
           /\ Len(got.verification) = Len(after.changesets)]_vars

\* a removeImmutable has removed the credentials of a vertex with two or more
\* changesets and with elements
C14_Witness ==
    /\ response.op = "removeImmutable"
    /\ response.status = "ok"
    /\ {"immutable.remove", "vertex.set"} \subseteq response.calls
    /\ LET vertex == vertexStorage[response.id] IN
       /\ Len(vertex.changesets) >= 2
       /\ \A i \in DOMAIN vertex.changesets :
             vertex.changesets[i].immutableStorageId = NoStorageId
       /\ \E c \in Collections : Len(vertex[c]) > 0
    /\ DOMAIN immutableStorage = {}

\* C15: the stored aliasIndex is the lower-cased ids of all stored aliases,
\* tombstones included, in stored order and joined by "||"; it is absent
\* exactly when the vertex has no aliases.
C15_AliasIndexMatchesAliases ==
    \A id \in DOMAIN vertexStorage :
        LET vertex == vertexStorage[id]
            ids == [i \in DOMAIN vertex.aliases |-> vertex.aliases[i].id]
        IN /\ Len(vertex.aliases) = 0 <=> vertex.aliasIndex = <<>>
           /\ vertex.aliasIndex = ToLowerCase(Join(ids, <<"|", "|">>))

\* a vertex holds a tombstoned alias and an alias whose id has a capital
C15_Witness ==
    \E id \in DOMAIN vertexStorage :
        LET aliases == vertexStorage[id].aliases IN
        /\ \E i \in DOMAIN aliases : aliases[i].deleted # NoStamp
        /\ \E i \in DOMAIN aliases : aliases[i].id = <<"B">>
        /\ vertexStorage[id].aliasIndex # <<>>

C16_Contains(text, needle) ==
    \E i, j \in 1..Len(text) : SubSeq(text, i, j) = needle

\* C16: query returns exactly the stored vertices whose id contains the
\* needle (idMode id), whose aliasIndex contains the lower-cased needle (idMode
\* alias) or either (idMode both, the default), each once; without a needle it
\* returns every stored vertex.
C16_QueryFindsByIdOrAlias ==
    response.op = "query" =>
        LET needle == response.query[1].id
            mode == IF response.query[1].idMode = UNDEF THEN "both"
                    ELSE response.query[1].idMode
            expected ==
                IF needle = <<>> THEN DOMAIN vertexStorage
                ELSE {id \in DOMAIN vertexStorage :
                        \/ /\ mode \in {"id", "both"}
                           /\ C16_Contains(id, needle)
                        \/ /\ mode \in {"alias", "both"}
                           /\ C16_Contains(vertexStorage[id].aliasIndex,
                                           ToLowerCase(needle))}
        IN /\ {response.entities[i].id : i \in DOMAIN response.entities} = expected
           /\ Len(response.entities) = Cardinality(expected)

\* with two vertices stored, a query by alias with a needle in capitals has
\* returned the one vertex whose alias matches
C16_Witness ==
    /\ response.op = "query"
    /\ response.query[1] = [id |-> <<"B">>, idMode |-> "alias"]
    /\ Cardinality(DOMAIN vertexStorage) = 2
    /\ Len(response.entities) = 1
    /\ \E id \in DOMAIN vertexStorage : vertexStorage[id].aliasIndex = <<>>

\* a create, update or removeImmutable returns an error in this step
FailedMutation ==
    /\ response = NoResponse
    /\ response'.op \in {"create", "update", "removeImmutable"}
    /\ response'.status # "ok"

\* C18: when a create, update or removeImmutable reports an error (a guard, a
\* vault sign or encrypt, the credential creation, an immutable store or
\* remove, or the final set failed), the vertex store is the same after the
\* call as before it.
C18_FailureLeavesVertexStore ==
    [][FailedMutation => vertexStorage' = vertexStorage]_vars

\* an update has failed in its final set, after the credential of its
\* changeset was stored
C18_Witness ==
    /\ response.op = "update"
    /\ response.status = "updateFailed"
    /\ "vertex.set" \in response.calls
    /\ Orphans > 0

\* two updates that loaded the same stored vertex have both returned: each
\* loaded the vertex before the other persisted
RaceOver ==
    /\ \A w \in Writers : pending[w].phase = "done"
    /\ pending[1].id = pending[2].id
    /\ pending[1].base = pending[2].base

\* the writer whose set came last
LaterWriter == CHOOSE w \in Writers : pending[w].order = Cardinality(Writers)

\* what get with verifySignatureDepth all returns for the stored vertex
VerifyAll(id) ==
    GetResult(vertexStorage[id], [DefaultOptions EXCEPT !.verifySignatureDepth = "all"],
              immutableStorage, revoked)

\* C19: when two updates of one vertex have both loaded it before either
\* persisted, the vertex stored after both returned is the one the later set
\* wrote, it has exactly one changeset more than the vertex they loaded, and
\* get with verifySignatureDepth all returns verified = true for it.
C19_LaterSetWinsAndVerifies ==
    RaceOver =>
        LET later == pending[LaterWriter]
            id == later.id
        IN /\ vertexStorage[id] = WriterUpdate(later, later.storageId).entity
           /\ Len(vertexStorage[id].changesets) = Len(later.base[1].changesets) + 1
           /\ VerifyAll(id).status = "ok"
           /\ VerifyAll(id).verified = <<TRUE>>

\* C20: when two updates of one vertex raced and the set of one was
\* overwritten by the set of the other, get with verifySignatureDepth all
\* reports the loss: verified is false or an entry carries a failure.
C20_LostUpdateIsDetected ==
    RaceOver =>
        LET result == VerifyAll(pending[1].id)
        IN \/ result.status # "ok"
           \/ result.verified = <<FALSE>>
           \/ \E i \in DOMAIN result.verification :
                 result.verification[i].failure # UNDEF

\* C21: a get with verifySignatureDepth current or all of a stored vertex
\* returns normally whatever is found while verifying: when the credential of
\* a changeset in scope cannot be fetched from the immutable storage, the
\* entry of that changeset carries a failure and verified is false.
C21_VerificationProblemIsReported ==
    (/\ response.op = "get"
     /\ response.status # "namespaceMismatch"
     /\ response.id \in DOMAIN vertexStorage) =>
        /\ response.status = "ok"
        /\ response.options.verifySignatureDepth \in {"current", "all"} =>
              \A i \in DOMAIN vertexStorage[response.id].changesets :
                 LET sid == vertexStorage[response.id].changesets[i].immutableStorageId
                     inScope ==
                        \/ response.options.verifySignatureDepth = "all"
                        \/ i = Len(vertexStorage[response.id].changesets)
                 IN (inScope /\ sid # NoStorageId /\ sid \notin DOMAIN immutableStorage) =>
                       /\ response.verification[i].failure # UNDEF
                       /\ response.verified = <<FALSE>>

\* the values an update supplies for an element equal the stored ones
SameValues(c, stored, supplied) ==
    /\ stored.metadataSchema = supplied.metadataSchema
    /\ Canonicalize(stored.metadata) = Canonicalize(supplied.metadata)
    /\ c = "edges" => stored.relationship = supplied.relationship

\* the stored element carries the values an update supplied
CarriesValues(c, stored, supplied) ==
    /\ stored.metadataSchema = supplied.metadataSchema
    /\ stored.metadata = supplied.metadata
    /\ c = "edges" => stored.relationship = supplied.relationship

\* the vertex a get with includeDeleted and without verification returns
ViewOf(entity) ==
    GetResult(entity, [DefaultOptions EXCEPT !.includeDeleted = TRUE,
                                            !.verifySignatureDepth = "none"],
              immutableStorage, revoked).vertex[1]

\* this step is an update that returns without an error
SuccessfulUpdate ==
    /\ response = NoResponse
    /\ response'.op = "update"
    /\ response'.status = "ok"

\* C22: when a successful update supplies the id of a live element, the
\* element keeps its position and created stamp; with different values it
\* carries the new values and a get shows it with updated equal to the time of
\* that update; with identical values it is left as it was.
C22_LiveElementIsUpdatedInPlace ==
    [][SuccessfulUpdate =>
        LET id == response'.id
            request == lastRequest'[id]
        IN \A c \in Collections : \A j \in DOMAIN request[c].items :
              LET supplied == request[c].items[j]
                  i == FirstIndex(vertexStorage[id][c], supplied.id, 1)
              IN (request[c].present /\ i # 0 /\ vertexStorage[id][c][i].deleted = NoStamp) =>
                    LET before == vertexStorage[id][c][i]
                        after == vertexStorage'[id][c][i]
                    IN IF SameValues(c, before, supplied)
                       THEN after = before
                       ELSE /\ after.id = before.id
                            /\ after.created = before.created
                            /\ after.deleted = NoStamp
                            /\ CarriesValues(c, after, supplied)
                            /\ ViewOf(vertexStorage'[id])[c][i].updated = clock']_vars

\* ------------------------------------------------------------ patch replay
\* RFC 6902 application of the patches the diff engine writes
ElementFields == {"metadataSchema", "metadata", "relationship", "deleted", "updated"}

\* the element properties of a state that a patch path can name
ElementTargets(state) ==
    UNION {{[c |-> c, k |-> k, f |-> f] : k \in DOMAIN state[c], f \in ElementFields} :
              c \in Collections}

ElementPath(t) == "/" \o t.c \o "/" \o ToString(t.k - 1) \o "/" \o t.f

PatchedValue(patch, f) ==
    IF patch.op = "remove" THEN (IF f \in {"deleted", "updated"} THEN NoStamp ELSE UNDEF)
    ELSE IF f \in {"deleted", "updated"} THEN patch.value.number
    ELSE patch.value.text

ApplyPatch(state, patch) ==
    IF patch.path = "/metadataSchema"
    THEN [state EXCEPT !.metadataSchema = PatchedValue(patch, "metadataSchema")]
    ELSE IF patch.path = "/metadata"
    THEN [state EXCEPT !.metadata = PatchedValue(patch, "metadata")]
    ELSE IF \E c \in Collections : patch.path = "/" \o c
    THEN LET c == CHOOSE c \in Collections : patch.path = "/" \o c
         IN [state EXCEPT ![c] = patch.value.array]
    ELSE IF \E c \in Collections : patch.path = "/" \o c \o "/-"
    THEN LET c == CHOOSE c \in Collections : patch.path = "/" \o c \o "/-"
         IN [state EXCEPT ![c] = Append(@, patch.value.object)]
    ELSE LET t == CHOOSE t \in ElementTargets(state) : ElementPath(t) = patch.path
         IN [state EXCEPT ![t.c][t.k][t.f] = PatchedValue(patch, t.f)]

RECURSIVE ApplyPatches(_, _)
ApplyPatches(state, patches) ==
    IF Len(patches) = 0 THEN state
    ELSE ApplyPatches(ApplyPatch(state, Head(patches)), Tail(patches))

RECURSIVE Replay(_, _)
\* the patches of the changesets applied in order
Replay(state, changesets) ==
    IF Len(changesets) = 0 THEN state
    ELSE Replay(ApplyPatches(state, Head(changesets).patches), Tail(changesets))

\* the vertex create starts from: id, nodeIdentity, created and updated only
ZeroVertex(entity) ==
    [id |-> entity.id, nodeIdentity |-> entity.nodeIdentity,
     created |-> entity.created, updated |-> entity.created,
     metadataSchema |-> UNDEF, metadata |-> UNDEF,
     aliases |-> <<>>, resources |-> <<>>, edges |-> <<>>, changesets |-> <<>>]

\* a vertex with object values in their canonical form, so that two spellings
\* of one object compare equal
Canonical(vertex) ==
    LET canon(list) == [i \in DOMAIN list |->
                          [list[i] EXCEPT !.metadata = Canonicalize(@)]]
    IN [vertex EXCEPT !.metadata = Canonicalize(@),
                      !.aliases = canon(@), !.resources = canon(@), !.edges = canon(@)]

\* C23: for every stored vertex, the patches of its changesets applied in
\* order to the vertex as create set it up give the stored vertex without its
\* changesets, the updated stamp of the vertex and the updated and deleted
\* stamps of the elements included.
C23_ReplayGivesStoredVertex ==
    \A id \in DOMAIN vertexStorage :
        Canonical(Replay(ZeroVertex(vertexStorage[id]), vertexStorage[id].changesets))
        = Canonical([vertexEntityToModel(vertexStorage[id]) EXCEPT !.changesets = <<>>])

\* a get, update or removeImmutable whose arguments pass the guards returns in
\* this step
LookupReturns ==
    /\ response = NoResponse
    /\ response'.op \in {"get", "update", "removeImmutable"}
    /\ response'.status # "guard"

ValidRequest(request) ==
    /\ request.userIdentity # ""
    /\ request.nodeIdentity # ""
    /\ \A c \in Collections : \A j \in DOMAIN request[c].items :
          request[c].present => request[c].items[j].id # <<>>
    /\ \A j \in DOMAIN request.edges.items :
          request.edges.present => request.edges.items[j].relationship # ""

\* C25: a create or update succeeds only with a user identity and a node
\* identity that are not empty, element ids that are not empty and edge
\* relationships that are not empty; a create or update that fails stores or
\* changes no vertex and stores no credential.
C25_InvalidArgumentsAreRejected ==
    [][(response = NoResponse /\ response'.op \in {"create", "update"}) =>
        IF response'.status = "ok"
        THEN ValidRequest(lastRequest'[response'.id])
        ELSE UNCHANGED <<vertexStorage, immutableStorage, immutableSeq>>]_vars

\* an update of a stored vertex has failed in a guard: on its identities or on
\* one of its elements
C25_Witness ==
    /\ workload = "invalid"
    /\ response.op = "update"
    /\ response.id \in DOMAIN vertexStorage
    /\ response.namespace = NAMESPACE
    /\ response.status = "updateFailed"

RECURSIVE RecomputedHash(_, _)
\* the digest verification computes for the i-th changeset of a chain: it is
\* chained to the digest computed for the one before
RecomputedHash(changesets, i) ==
    ChangesetDigest(IF i = 1 THEN <<>> ELSE <<RecomputedHash(changesets, i - 1)>>,
                    changesets[i].created, changesets[i].userIdentity,
                    changesets[i].patches)

CredentialFailures ==
    {"changesetCredentialRevoked", "invalidChangesetSignature", "invalidChangesetCanonical"}

C27_IntegrityPayloadFollowsConfig ==
    /\ \A id \in DOMAIN vertexStorage : \A i \in DOMAIN vertexStorage[id].changesets :
          LET changeset == vertexStorage[id].changesets[i]
              sid == changeset.immutableStorageId
          IN sid \in DOMAIN immutableStorage =>
                LET key == VaultKey(immutableStorage[sid].issuer)
                    data == immutableStorage[sid].credentialSubject
                IN /\ data.signature =
                         bytesToBase64(VaultSign(key, base64ToBytes(changeset.hash)))
                   /\ data.integrity =
                         IF enableIntegrityCheck
                         THEN <<bytesToBase64(VaultEncrypt(key,
                                   CanonicalizeIntegrity(changeset.created,
                                       changeset.userIdentity, changeset.patches)))>>
                         ELSE <<>>
    /\ (GetReturned /\ ~enableIntegrityCheck) =>
          \A i \in DOMAIN response.verification :
             response.verification[i].failure # "invalidChangesetCanonical"

\* with the integrity check on, a vertex has two changesets with stored
\* credentials
C27_Witness ==
    /\ enableIntegrityCheck
    /\ \E id \in DOMAIN vertexStorage :
          /\ Len(vertexStorage[id].changesets) >= 2
          /\ \A i \in DOMAIN vertexStorage[id].changesets :
                vertexStorage[id].changesets[i].immutableStorageId \in DOMAIN immutableStorage

\* C28: the vertices a query returns hold no alias with a deleted stamp.
C28_QueryHidesTombstones ==
    response.op = "query" =>
        \A n \in DOMAIN response.entities :
           \A i \in DOMAIN response.entities[n].aliases :
              response.entities[n].aliases[i].deleted = NoStamp

\* C29: in what a get with verification returns, every entry with a failure
\* carries failureProperties holding the stored hash and the created stamp of
\* its changeset, and every entry without a failure carries none.
C29_FailuresCarryProperties ==
    (GetReturned /\ response.options.verifySignatureDepth \in {"current", "all"}) =>
        \A i \in DOMAIN response.verification :
           LET entry == response.verification[i]
               changeset == vertexStorage[response.id].changesets[i]
           IN IF entry.failure = UNDEF
              THEN entry.failureProperties = <<>>
              ELSE /\ Len(entry.failureProperties) = 1
                   /\ entry.failureProperties[1].hash = changeset.hash
                   /\ entry.failureProperties[1].epoch = changeset.created

\* the storage ids the stored changesets name
ReferencedIds(storage) ==
    UNION {{storage[id].changesets[i].immutableStorageId :
               i \in DOMAIN storage[id].changesets} : id \in DOMAIN storage}

\* a create or update fails in this step in its final set, after its
\* credential was stored
FailsAfterStore ==
    /\ response = NoResponse
    /\ response'.op \in {"create", "update"}
    /\ response'.status # "ok"
    /\ "vertex.set" \in response'.calls

\* C30: a create or update that fails after the immutable store and before
\* the vertex set leaves the vertex storage as it was and exactly one more
\* credential in the immutable storage, which no stored changeset names; a
\* successful update after such a failure appends one changeset chained to the
\* last stored changeset and get with verifySignatureDepth all returns
\* verified = true.
C30_OrphanCredentialIsHarmless ==
    [][/\ FailsAfterStore =>
            /\ vertexStorage' = vertexStorage
            /\ immutableSeq' = immutableSeq + 1
            /\ DOMAIN immutableStorage' = DOMAIN immutableStorage \cup {immutableSeq'}
            /\ immutableSeq' \notin DOMAIN immutableStorage
            /\ immutableSeq' \notin ReferencedIds(vertexStorage')
       /\ (SuccessfulUpdate /\ Orphans > 0 /\ vertexStorage' # vertexStorage) =>
            LET id == response'.id
                before == vertexStorage[id].changesets
                after == vertexStorage'[id].changesets
                added == after[Len(after)]
                result == GetResult(vertexStorage'[id],
                              [DefaultOptions EXCEPT !.verifySignatureDepth = "all"],
                              immutableStorage', revoked')
            IN /\ Len(after) = Len(before) + 1
               /\ SubSeq(after, 1, Len(before)) = before
               /\ added.hash = bytesToBase64(ChangesetDigest(
                                  <<base64ToBytes(before[Len(before)].hash)>>,
                                  added.created, added.userIdentity, added.patches))
               /\ result.status = "ok"
               /\ result.verified = <<TRUE>>]_vars

\* C31: the elements of aliases, resources and edges are stored in insertion
\* order: a create or update removes no element of a stored collection and
\* moves none (every position keeps its id and created), every element it adds
\* stands behind the existing ones with created = the time of the call, and an
\* alias the list of an update leaves out gets its deleted stamp where it
\* stands while the alias that replaces it is appended.
C31_InsertionOrderIsStable ==
    [][\A id \in DOMAIN vertexStorage, c \in Collections :
          LET before == vertexStorage[id][c]
              after == StoredCollection(vertexStorage', id, c)
          IN /\ Len(after) >= Len(before)
             /\ \A i \in DOMAIN before :
                   /\ after[i].id = before[i].id
                   /\ after[i].created = before[i].created
             /\ \A j \in (Len(before) + 1)..Len(after) :
                   /\ SuccessfulMutation
                   /\ response'.id = id
                   /\ after[j].created = clock'
                   /\ after[j].deleted = NoStamp
                   /\ after[j].id \in InputIds(lastRequest'[id][c])
             /\ (/\ SuccessfulMutation
                 /\ response'.op = "update"
                 /\ response'.id = id
                 /\ lastRequest'[id][c].present)
                => \A i \in DOMAIN before :
                      (/\ before[i].deleted = NoStamp
                       /\ before[i].id \notin InputIds(lastRequest'[id][c]))
                      => after[i].deleted = clock']_vars

\* an update has replaced an alias: the old one carries the deleted stamp of
\* the update at its position and the new one, created by the update, is last
C31_Witness ==
    /\ response.op = "update"
    /\ response.status = "ok"
    /\ "vertex.set" \in response.calls
    /\ LET list == vertexStorage[response.id].aliases IN
       \E i \in DOMAIN list :
           /\ Len(list) = 2
           /\ i < Len(list)
           /\ list[i].created < clock
           /\ list[i].deleted = clock
           /\ list[Len(list)].id # list[i].id
           /\ list[Len(list)].created = clock
           /\ list[Len(list)].deleted = NoStamp

\* C32: in every state that create, update and removeImmutable reach, created
\* of a stored vertex is the created stamp of its first changeset and updated
\* is the created stamp of its last changeset, so updated >= created; and a
\* created or deleted stamp that a create or update puts on an element is the
\* created stamp of the changeset that call appended.
C32_StampsFollowChangesets ==
    [][/\ \A id \in DOMAIN vertexStorage' :
             LET v == vertexStorage'[id] IN
             /\ Len(v.changesets) > 0
             /\ v.created = v.changesets[1].created
             /\ v.updated = v.changesets[Len(v.changesets)].created
             /\ v.updated >= v.created
       /\ \A id \in DOMAIN vertexStorage', c \in Collections :
             LET before == StoredCollection(vertexStorage, id, c)
                 after == vertexStorage'[id][c]
                 sets == vertexStorage'[id].changesets
                 stamped == {j \in DOMAIN after :
                                \/ j \notin DOMAIN before
                                \/ after[j].created # before[j].created
                                \/ after[j].deleted # before[j].deleted}
             IN stamped # {}
                => /\ SuccessfulMutation
                   /\ response'.id = id
                   /\ Len(sets) = (IF id \in DOMAIN vertexStorage
                                   THEN Len(vertexStorage[id].changesets) ELSE 0) + 1
                   /\ sets[Len(sets)].created = clock'
                   /\ \A j \in stamped :
                         /\ j \notin DOMAIN before
                            => after[j].created = sets[Len(sets)].created
                         /\ (j \in DOMAIN before /\ after[j].deleted # before[j].deleted)
                            => after[j].deleted = sets[Len(sets)].created
                         /\ j \in DOMAIN before
                            => after[j].created = before[j].created]_vars

\* an update later than the create has stamped a new element and a tombstone:
\* both stamps are the created stamp of the last changeset, which is updated
C32_Witness ==
    /\ response.op = "update"
    /\ response.status = "ok"
    /\ "vertex.set" \in response.calls
    /\ LET v == vertexStorage[response.id] IN
       /\ v.created < v.updated
       /\ v.updated = clock
       /\ \E c \in Collections :
             \E i, j \in DOMAIN v[c] :
                 /\ v[c][i].created = v.created
                 /\ v[c][i].deleted = v.updated
                 /\ v[c][j].created = v.updated

\* C33: in every state that create and update reach, each collection of a
\* stored vertex holds at most one element without a deleted stamp per id.
C33_OneLiveElementPerId ==
    \A id \in DOMAIN vertexStorage, c \in Collections :
        LET list == vertexStorage[id][c] IN
        \A i, j \in DOMAIN list :
            (/\ list[i].id = list[j].id
             /\ list[i].deleted = NoStamp
             /\ list[j].deleted = NoStamp)
            => i = j

\* the failure the ordered checks give the i-th changeset of a stored vertex:
\* the hash first, then revocation, then the signature, then the integrity data
OrderedFailure(vertex, i, inScope) ==
    LET changeset == vertex.changesets[i]
        digest == RecomputedHash(vertex.changesets, i)
        sid == changeset.immutableStorageId
        subject == immutableStorage[sid].credentialSubject
        signature == bytesToBase64(VaultSign(VaultKey(vertex.nodeIdentity), digest))
    IN IF bytesToBase64(digest) # changeset.hash THEN "invalidChangesetHash"
       ELSE IF ~inScope \/ sid = NoStorageId THEN UNDEF
       ELSE IF sid \in revoked THEN "changesetCredentialRevoked"
       ELSE IF subject.signature # signature THEN "invalidChangesetSignature"
       ELSE IF Len(subject.integrity) = 0 THEN UNDEF
       ELSE IF base64ToBytes(subject.integrity[1]).plaintext #
                  CanonicalizeIntegrity(changeset.created, changeset.userIdentity,
                                        changeset.patches)
       THEN "invalidChangesetCanonical"
       ELSE UNDEF

\* C34: in what a get with verifySignatureDepth current or all returns, every
\* entry carries the failure of the first check that fails in the order hash,
\* revocation, signature, integrity and nothing of the later checks (a hash
\* mismatch hides the credential checks, a revoked credential hides signature
\* and integrity, a signature mismatch hides integrity), and verified is false
\* only if some entry carries a failure.
C34_ChecksAreOrdered ==
    (GetReturned /\ response.options.verifySignatureDepth \in {"current", "all"}) =>
        LET vertex == vertexStorage[response.id]
            changesets == vertex.changesets
        IN /\ Len(response.verification) = Len(changesets)
           /\ \A i \in DOMAIN changesets :
                 response.verification[i].failure =
                     OrderedFailure(vertex, i,
                         \/ response.options.verifySignatureDepth = "all"
                         \/ i = Len(changesets))
           /\ response.verified = <<FALSE>>
              => \E i \in DOMAIN changesets :
                     response.verification[i].failure # UNDEF

\* a get has reported a revoked credential for a changeset whose credential
\* was signed and encrypted with the key of another node than the vertex's
C34_Witness ==
    /\ GetReturned
    /\ response.options.verifySignatureDepth = "all"
    /\ \E i \in DOMAIN response.verification :
          LET changeset == vertexStorage[response.id].changesets[i] IN
          /\ response.verification[i].failure = "changesetCredentialRevoked"
          /\ changeset.immutableStorageId \in revoked
          /\ immutableStorage[changeset.immutableStorageId].issuer #
                 vertexStorage[response.id].nodeIdentity

SuccessfulRemoveImmutable ==
    /\ response = NoResponse
    /\ response'.op = "removeImmutable"
    /\ response'.status = "ok"
    /\ response'.id \in DOMAIN vertexStorage

\* C36: a removeImmutable on a vertex whose credentials an earlier
\* removeImmutable has removed, with no update in between, calls neither the
\* immutable storage's remove nor the vertex storage's set and leaves both
\* storages as they are; when updates have appended changesets since, it
\* removes the credentials of exactly those changesets, clears their ids and
\* touches nothing else.
C36_RemoveImmutableIsIdempotent ==
    [][SuccessfulRemoveImmutable =>
          LET id == response'.id
              before == vertexStorage[id].changesets
              after == vertexStorage'[id].changesets
              named == {before[i].immutableStorageId : i \in DOMAIN before}
                           \ {NoStorageId}
          IN /\ named = {}
                => /\ "immutable.remove" \notin response'.calls
                   /\ "vertex.set" \notin response'.calls
                   /\ vertexStorage' = vertexStorage
                   /\ immutableStorage' = immutableStorage
             /\ named # {}
                => /\ {"immutable.remove", "vertex.set"} \subseteq response'.calls
                   /\ DOMAIN immutableStorage' = DOMAIN immutableStorage \ named
             /\ \A sid \in DOMAIN immutableStorage' :
                   immutableStorage'[sid] = immutableStorage[sid]
             /\ [vertexStorage' EXCEPT ![id].changesets = before] = vertexStorage
             /\ Len(after) = Len(before)
             /\ \A i \in DOMAIN before :
                   after[i] = [before[i] EXCEPT !.immutableStorageId = NoStorageId]]_vars

\* a removeImmutable has returned without calling remove or set for a vertex
\* whose changesets have all lost their credential ids
C36_Witness ==
    /\ response.op = "removeImmutable"
    /\ response.status = "ok"
    /\ response.calls = {"vertex.get"}
    /\ response.id \in DOMAIN vertexStorage
    /\ Len(vertexStorage[response.id].changesets) >= 2
    /\ \A i \in DOMAIN vertexStorage[response.id].changesets :
          vertexStorage[response.id].changesets[i].immutableStorageId = NoStorageId

\* C37: in every state a sequential run of create, update and removeImmutable
\* reaches, calls that fail at a collaborator included, every
\* immutableStorageId a stored changeset carries is the id of a record that
\* is present in the immutable storage.
C37_StoredIdsAreInTheLog ==
    ReferencedIds(vertexStorage) \ {NoStorageId} \subseteq DOMAIN immutableStorage

\* no update and no removeImmutable is in flight and one of each has returned
\* for the same vertex after both had loaded the same stored entity
RemovalRaceOver ==
    /\ \A w \in Writers : pending[w].phase = "done"
    /\ pending[1].id = pending[2].id
    /\ \E w, v \in Writers :
          /\ Len(pending[w].request) = 1
          /\ Len(pending[v].request) = 0
          /\ pending[v].base[1].changesets =
                 [i \in DOMAIN pending[w].base[1].changesets |->
                    [pending[w].base[1].changesets[i] EXCEPT
                        !.immutableStorageId = NoStorageId]]

\* C38: after an update and a removeImmutable of one vertex that both loaded
\* the vertex before either persisted have both returned, every
\* immutableStorageId a stored changeset of the vertex carries is the id of a
\* record present in the immutable storage, and get with verifySignatureDepth
\* all returns without an error.
C38_InterleavedRemovalKeepsIdsValid ==
    RemovalRaceOver
    => /\ \A i \in DOMAIN vertexStorage[pending[1].id].changesets :
             LET sid == vertexStorage[pending[1].id].changesets[i].immutableStorageId
             IN sid # NoStorageId => sid \in DOMAIN immutableStorage
       /\ VerifyAll(pending[1].id).status = "ok"

\* a get or a query returns in this step
LookupOrQueryReturns ==
    /\ response = NoResponse
    /\ response'.op \in {"get", "query"}

\* C39: get and query only read: whatever the options (includeDeleted,
\* includeChangesets, verifySignatureDepth) and whether they return or fail,
\* the vertex storage and the immutable storage are after the call what they
\* were before it; leaving tombstones or changesets out of the returned
\* vertex does not touch the stored vertex.
C39_GetAndQueryOnlyRead ==
    [][LookupOrQueryReturns =>
          /\ vertexStorage' = vertexStorage
          /\ immutableStorage' = immutableStorage
          /\ immutableSeq' = immutableSeq
          /\ revoked' = revoked]_vars

\* a get without includeDeleted and includeChangesets has returned a vertex
\* without aliases while the stored vertex keeps its tombstone and changesets
C39_Witness ==
    /\ GetReturned
    /\ ~response.options.includeDeleted
    /\ ~response.options.includeChangesets
    /\ "aliases" \notin response.vertex[1].keys
    /\ response.vertex[1].changesets = <<>>
    /\ \E i \in DOMAIN vertexStorage[response.id].aliases :
          vertexStorage[response.id].aliases[i].deleted # NoStamp
    /\ Len(vertexStorage[response.id].changesets) >= 2

====
